---------------------------- MODULE Spec2Model ----------------------------
(***************************************************************************)
(* trackio-tui: the comparison engine (src/data/comparison.rs), and the    *)
(* application state machine with its own index-keyed comparison state     *)
(* (src/app.rs), driven by key events, refreshes and Storage answers.      *)
(***************************************************************************)
EXTENDS Naturals, Integers, Sequences, FiniteSets, TLC

VARIABLES
    \* data::ComparisonState (src/data/comparison.rs)
    marked_runs,      \* HashSet<String>: the run ids marked for comparison
    metrics_cache,    \* HashMap<String, Vec<Metric>>: a function on the cached ids
    \* the last call made on it, the state before that call, and what it returned
    cmp_op,
    cmp_pre,
    cmp_ret,
    cmp_twice,        \* the last two calls were toggle_run with the same run id
    cmp_contract,     \* every cache_metrics call so far was for a run marked then
    \* App (src/app.rs)
    projects, runs, metrics, metric_names, current_config,
    comparison,       \* app::ComparisonState: [marked_runs, metrics_cache]
    focused, selected_project, selected_run, selected_metric, show_help,
    should_quit, error_message,
    \* how the method run by the main loop's last step ended: Ok, Err, Panic
    app_status,
    \* App::chart_config: [smoothing, x_min], smoothing in hundredths
    chart_config,
    \* ui::MetricSlotState (src/ui/metric_selector.rs)
    selected_slot, window_start, selected_metrics,
    num_metrics,      \* the caller's metric count, passed to every call
    \* the last call made on it, the state before that call, what it returned
    slot_op,
    slot_pre,
    slot_ret,
    slot_clamped,     \* clamp(num_metrics) was called since num_metrics changed
    \* window_start before the last two calls, if they were shift_right and
    \* then shift_left with the same count
    slot_before_right,
    \* [dir, count, start]: the last `count` calls were all shift_left, or all
    \* shift_right, with the same count of metrics, and window_start was `start`
    \* before the first of them
    slot_run,
    \* run() and run_main_loop (src/app.rs)
    pc,               \* the statement run() or the loop is at
    \* [raw_mode, alternate_screen, restore_calls]: the terminal's modes and
    \* the calls of restore_terminal() so far
    terminal,
    raw_enabled,      \* enable_raw_mode() has succeeded
    refresh_due,      \* last_refresh.elapsed() >= tick_rate
    loop_result,      \* what run_main_loop returned: None, Ok, Err
    run_result,       \* what run() returned: None, Ok, Err
    iter_steps,       \* what the current iteration of the loop has done so far
    \* Set: the loop has set an error message since the last frame was drawn;
    \* Refreshed: and a refresh has succeeded since
    err_unrendered,
    \* ConfigPanel::render on one line (src/ui/widgets.rs): [line, query, ranges,
    \* status], the ranges found in the line and how the rendering ended
    highlight,
    \* ConfigPanelState (src/ui/widgets.rs), the last call made on it and the
    \* state before that call
    config_panel, cfg_op, cfg_pre,
    \* the chart data of MetricsChart::render (src/ui/chart.rs), one list of
    \* (x, y) points a series, and the bounds calculated for it
    chart_data, chart_bounds,
    \* a call of Metric::smoothed (src/data/models.rs): [points, factor, result]
    smooth,
    \* two plotted lists, the theme and the colours their series are given
    plots

cmpVars == <<marked_runs, metrics_cache, cmp_op, cmp_pre, cmp_ret, cmp_twice,
            cmp_contract>>

appVars == <<projects, runs, metrics, metric_names, current_config, comparison,
            focused, selected_project, selected_run, selected_metric, show_help,
            should_quit, error_message, app_status, chart_config>>

slotVars == <<selected_slot, window_start, selected_metrics, num_metrics,
             slot_op, slot_pre, slot_ret, slot_clamped, slot_before_right,
             slot_run>>

runVars == <<pc, terminal, raw_enabled, refresh_due, loop_result, run_result,
            iter_steps, err_unrendered>>

cfgVars == <<config_panel, cfg_op, cfg_pre>>

chartVars == <<chart_data, chart_bounds>>

vars ==
    <<cmpVars, appVars, slotVars, runVars, highlight, cfgVars, chartVars, smooth,
      plots>>

\* what a step of one component leaves alone
nonCmpVars ==
    <<appVars, slotVars, runVars, highlight, cfgVars, chartVars, smooth, plots>>
nonAppVars ==
    <<cmpVars, slotVars, runVars, highlight, cfgVars, chartVars, smooth, plots>>
nonSlotVars ==
    <<cmpVars, appVars, runVars, highlight, cfgVars, chartVars, smooth, plots>>
nonRunVars ==
    <<cmpVars, slotVars, highlight, cfgVars, chartVars, smooth, plots>>
nonHighlightVars ==
    <<cmpVars, appVars, slotVars, runVars, cfgVars, chartVars, smooth, plots>>
nonChartVars ==
    <<cmpVars, appVars, slotVars, runVars, highlight, cfgVars, smooth, plots>>
nonSmoothVars ==
    <<cmpVars, appVars, slotVars, runVars, highlight, cfgVars, chartVars, plots>>
nonPlotVars ==
    <<cmpVars, appVars, slotVars, runVars, highlight, cfgVars, chartVars, smooth>>
nonCfgVars ==
    <<cmpVars, appVars, slotVars, runVars, highlight, chartVars, smooth, plots>>

(***************************************************************************)
(* Bounds.                                                                 *)
(***************************************************************************)
MaxRunIds == 3
MaxMetricNames == 2
MaxCachedMetrics == 1
MaxProjects == 2
MaxRuns == 2

RunIds == 1..MaxRunIds
ProjectNames == 1..MaxProjects
AppRunIds == 1..MaxRuns

\* A Vec<Metric> as get_all_metrics builds it: one Metric per name, ascending
\* by name.  A Metric is represented by its name.
MetricLists == {[i \in 1..n |-> i] : n \in 0..MaxMetricNames}
\* the metric lists handed to cache_metrics
CachedMetricLists == {[i \in 1..n |-> i] : n \in 0..MaxCachedMetrics}

Range(s) == {s[i] : i \in DOMAIN s}

\* Every order in which the elements of the finite set S can be iterated.
Orders(S) == {s \in [1..Cardinality(S) -> S] : Range(s) = S}

Restrict(f, D) == [x \in D |-> f[x]]

NoRun == CHOOSE n \in 0..MaxRunIds : n \notin RunIds
Unit == "unit"

(***************************************************************************)
(* data::ComparisonState, src/data/comparison.rs                           *)
(***************************************************************************)
ComparisonStateNew ==
    [marked_runs |-> {}, metrics_cache |-> [r \in {} |-> <<>>]]

\* toggle_run without the metrics_cache.remove
ToggleRunKeepsCache(self, run_id) ==
    IF run_id \in self.marked_runs
    THEN [self |-> [self EXCEPT !.marked_runs = @ \ {run_id}], ret |-> FALSE]
    ELSE [self |-> [self EXCEPT !.marked_runs = @ \cup {run_id}], ret |-> TRUE]

\* toggle_run that returns true on both branches
ToggleRunReturnsTrue(self, run_id) ==
    IF run_id \in self.marked_runs
    THEN [self |-> [marked_runs |-> self.marked_runs \ {run_id},
                    metrics_cache |-> Restrict(self.metrics_cache,
                                        DOMAIN self.metrics_cache \ {run_id})],
          ret |-> TRUE]
    ELSE [self |-> [self EXCEPT !.marked_runs = @ \cup {run_id}], ret |-> TRUE]

\* toggle_run without the marked_runs.remove
ToggleRunKeepsMark(self, run_id) ==
    IF run_id \in self.marked_runs
    THEN [self |-> [self EXCEPT !.metrics_cache =
                        Restrict(@, DOMAIN self.metrics_cache \ {run_id})],
          ret |-> FALSE]
    ELSE [self |-> [self EXCEPT !.marked_runs = @ \cup {run_id}], ret |-> TRUE]

ToggleRun(self, run_id) ==
    IF run_id \in self.marked_runs
    THEN [self |-> [marked_runs |-> self.marked_runs \ {run_id},
                    metrics_cache |-> Restrict(self.metrics_cache,
                                        DOMAIN self.metrics_cache \ {run_id})],
          ret |-> FALSE]
    ELSE [self |-> [self EXCEPT !.marked_runs = @ \cup {run_id}], ret |-> TRUE]

\* clear without the metrics_cache.clear
ClearKeepsCache(self) ==
    [self EXCEPT !.marked_runs = {}]

Clear(self) ==
    [marked_runs |-> {}, metrics_cache |-> [r \in {} |-> <<>>]]

\* HashMap::insert: adds the key or overwrites its value
CacheMetrics(self, run_id, ms) ==
    [self EXCEPT !.metrics_cache =
        [r \in DOMAIN self.metrics_cache \cup {run_id} |->
            IF r = run_id THEN ms ELSE self.metrics_cache[r]]]

RECURSIVE FlatMapCached(_, _, _)
\* the flat_map over the marked runs that passed the filter, in iteration order
FlatMapCached(order, cache, i) ==
    IF i > Len(order) THEN <<>>
    ELSE LET run_id == order[i]
             here == IF run_id \in DOMAIN cache
                     THEN [k \in 1..Len(cache[run_id]) |-> <<run_id, cache[run_id][k]>>]
                     ELSE <<>>
         IN  here \o FlatMapCached(order, cache, i + 1)

\* get_comparison_metrics without the filter on selected_run_id
GetComparisonMetricsUnfiltered(self, order, selected_run_id) ==
    FlatMapCached(order, self.metrics_cache, 1)

\* `order` is the order in which the HashSet is iterated
GetComparisonMetrics(self, order, selected_run_id) ==
    FlatMapCached(SelectSeq(order, LAMBDA r : r # selected_run_id),
                  self.metrics_cache, 1)

\* prune_invalid_runs without the metrics_cache.retain
PruneInvalidRunsMarkedOnly(self, valid_run_ids) ==
    [self EXCEPT !.marked_runs = @ \cap valid_run_ids]

PruneInvalidRuns(self, valid_run_ids) ==
    [marked_runs |-> {r \in self.marked_runs : r \in valid_run_ids},
     metrics_cache |-> Restrict(self.metrics_cache,
                         {r \in DOMAIN self.metrics_cache : r \in valid_run_ids})]

(***************************************************************************)
(* The calls, made in any order with any arguments.                        *)
(***************************************************************************)
Self == [marked_runs |-> marked_runs, metrics_cache |-> metrics_cache]

CmpOp(name, run_id, valid) == [name |-> name, run_id |-> run_id, valid_run_ids |-> valid]

\* the App before App::new
AppIdle ==
    /\ projects = <<>> /\ runs = <<>> /\ metrics = <<>> /\ metric_names = <<>>
    /\ current_config = 0
    /\ comparison = [marked_runs |-> <<>>, metrics_cache |-> [r \in {} |-> <<>>]]
    /\ focused = "Projects"
    /\ selected_project = 0 /\ selected_run = 0 /\ selected_metric = 0
    /\ show_help = FALSE /\ should_quit = FALSE /\ error_message = "None"
    /\ app_status = "Ok"
    /\ chart_config = [smoothing |-> 0, x_min |-> <<>>]

\* the MetricSlotState before any call: MetricSlotState::new()
SlotIdle ==
    /\ selected_slot = 0 /\ window_start = 0 /\ selected_metrics = {}
    /\ num_metrics = 0
    /\ slot_op = [name |-> "new", arg |-> 0]
    /\ slot_pre = [selected_slot |-> 0, window_start |-> 0, selected_metrics |-> {}]
    /\ slot_ret = "unit"
    /\ slot_clamped = TRUE
    /\ slot_before_right = <<>>
    /\ slot_run = [dir |-> "none", count |-> 0, start |-> 0]

\* run() not called: the application is driven method by method
RunIdle ==
    /\ pc = "idle"
    /\ terminal = [raw_mode |-> FALSE, alternate_screen |-> FALSE, restore_calls |-> 0]
    /\ raw_enabled = FALSE
    /\ refresh_due = FALSE
    /\ loop_result = "None" /\ run_result = "None"
    /\ iter_steps = <<>>
    /\ err_unrendered = "None"

\* the widgets of src/ui before anything is rendered
HighlightIdle ==
    highlight = [line |-> <<>>, query |-> <<>>, ranges |-> <<>>, status |-> "None"]

CfgIdle ==
    /\ config_panel = [scroll_v |-> 0, scroll_h |-> 0, search |-> <<>>,
                       search_active |-> FALSE, match_indices |-> <<>>,
                       current_match |-> 0]
    /\ cfg_op = "new"
    /\ cfg_pre = config_panel

ChartIdle ==
    /\ chart_data = <<>>
    /\ chart_bounds = <<>>

SmoothIdle ==
    smooth = [points |-> <<>>, factor |-> 0, result |-> <<>>]

PlotIdle ==
    plots = [theme |-> "default", lists |-> << <<>>, <<>> >>, colors |-> <<>>]

UiIdle == HighlightIdle /\ CfgIdle /\ ChartIdle /\ SmoothIdle /\ PlotIdle

CmpInit ==
    /\ marked_runs = ComparisonStateNew.marked_runs
    /\ metrics_cache = ComparisonStateNew.metrics_cache
    /\ cmp_op = CmpOp("new", NoRun, {})
    /\ cmp_pre = ComparisonStateNew
    /\ cmp_ret = Unit
    /\ cmp_twice = FALSE
    /\ cmp_contract = TRUE

CmpStep(op, next, ret) ==
    /\ marked_runs' = next.marked_runs
    /\ metrics_cache' = next.metrics_cache
    /\ cmp_op' = op
    /\ cmp_pre' = Self
    /\ cmp_ret' = ret
    /\ cmp_twice' = (op.name = "toggle_run" /\ cmp_op = op)
    /\ cmp_contract' = (cmp_contract /\
                           (op.name = "cache_metrics" => op.run_id \in marked_runs))

CallToggleRun ==
    /\ \E run_id \in RunIds :
           LET r == ToggleRun(Self, run_id)
           IN  CmpStep(CmpOp("toggle_run", run_id, {}), r.self, r.ret)
    /\ UNCHANGED nonCmpVars

CallCacheMetrics ==
    /\ \E run_id \in RunIds, ms \in CachedMetricLists :
           CmpStep(CmpOp("cache_metrics", run_id, {}),
                   CacheMetrics(Self, run_id, ms), Unit)
    /\ UNCHANGED nonCmpVars

CallClear ==
    /\ CmpStep(CmpOp("clear", NoRun, {}), Clear(Self), Unit)
    /\ UNCHANGED nonCmpVars

CallPruneInvalidRuns ==
    /\ \E valid_run_ids \in SUBSET RunIds :
           CmpStep(CmpOp("prune_invalid_runs", NoRun, valid_run_ids),
                   PruneInvalidRuns(Self, valid_run_ids), Unit)
    /\ UNCHANGED nonCmpVars

\* the iteration order of the HashSet is any order of its elements
CallGetComparisonMetrics ==
    /\ \E selected_run_id \in RunIds, order \in Orders(marked_runs) :
           CmpStep(CmpOp("get_comparison_metrics", selected_run_id, {}),
                   Self, GetComparisonMetrics(Self, order, selected_run_id))
    /\ UNCHANGED nonCmpVars

CmpNext ==
    \/ CallToggleRun
    \/ CallCacheMetrics
    \/ CallClear
    \/ CallPruneInvalidRuns
    \/ CallGetComparisonMetrics

\* the comparison engine alone, the rest of the program not started
InitCmp == CmpInit /\ AppIdle /\ SlotIdle /\ RunIdle /\ UiIdle

SpecCmp == InitCmp /\ [][CmpNext]_vars

(***************************************************************************)
(* The application, src/app.rs.  Vec indices are 0-based as in the source; *)
(* At(v, i) is v[i].                                                        *)
(***************************************************************************)
At(v, i) == v[i + 1]

\* usize::saturating_sub(1)
SaturatingSub1(n) == IF n = 0 THEN 0 ELSE n - 1

\* A Run is represented by its id; its config is a token that differs from
\* run to run and from the empty Vec<Config>.
EmptyConfig == 0
RunConfig(run) == run

None == "None"
NoProject == 0

\* What Storage can answer: Err, or Ok of a list.  Project names and run ids
\* are unique within a list (file stems of one directory, run_name keys).
ErrAnswer == [ok |-> FALSE, val |-> <<>>]
OkAnswer(v) == [ok |-> TRUE, val |-> v]

InjectiveSeqs(S) ==
    UNION {{q \in [1..n -> S] : \A i, j \in 1..n : q[i] = q[j] => i = j} :
              n \in 0..Cardinality(S)}

ProjectLists == InjectiveSeqs(ProjectNames)
RunLists == InjectiveSeqs(AppRunIds)
\* list_metrics sorts the names
MetricNameLists == {[i \in 1..n |-> i] : n \in 0..MaxMetricNames}

Answers(lists) == {ErrAnswer} \cup {OkAnswer(v) : v \in lists}

(***************************************************************************)
(* app::ComparisonState: marked_runs is a Vec<usize> of run indices,       *)
(* metrics_cache a HashMap keyed by run index.                             *)
(***************************************************************************)
AppComparisonStateNew ==
    [marked_runs |-> <<>>, metrics_cache |-> [r \in {} |-> <<>>]]

\* faulty variant of toggle_run: unmarking leaves the cache entry
AppToggleRunKeepsCache(self, run_idx) ==
    IF \E pos \in DOMAIN self.marked_runs : self.marked_runs[pos] = run_idx
    THEN [self |-> [self EXCEPT !.marked_runs =
                        SelectSeq(@, LAMBDA r : r # run_idx)],
          ret |-> FALSE]
    ELSE [self |-> [self EXCEPT !.marked_runs = Append(@, run_idx)],
          ret |-> TRUE]

AppToggleRun(self, run_idx) ==
    IF \E pos \in DOMAIN self.marked_runs : self.marked_runs[pos] = run_idx
    THEN [self |-> [marked_runs |-> SelectSeq(self.marked_runs,
                                              LAMBDA r : r # run_idx),
                    metrics_cache |-> Restrict(self.metrics_cache,
                                        DOMAIN self.metrics_cache \ {run_idx})],
          ret |-> FALSE]
    ELSE [self |-> [self EXCEPT !.marked_runs = Append(@, run_idx)],
          ret |-> TRUE]

AppClear(self) ==
    [marked_runs |-> <<>>, metrics_cache |-> [r \in {} |-> <<>>]]

AppCacheMetrics(self, run_idx, ms) ==
    [self EXCEPT !.metrics_cache =
        [r \in DOMAIN self.metrics_cache \cup {run_idx} |->
            IF r = run_idx THEN ms ELSE self.metrics_cache[r]]]

AppGetComparisonMetrics(self, selected) ==
    FlatMapCached(SelectSeq(self.marked_runs, LAMBDA r : r # selected),
                  self.metrics_cache, 1)

AppPruneInvalidRuns(self, max_run_idx) ==
    [marked_runs |-> SelectSeq(self.marked_runs, LAMBDA r : r < max_run_idx),
     metrics_cache |-> Restrict(self.metrics_cache,
                         {r \in DOMAIN self.metrics_cache : r < max_run_idx})]

(***************************************************************************)
(* FocusedPanel                                                            *)
(***************************************************************************)
FocusedPanels == {"Projects", "Runs", "Metrics"}

FocusedPanelNext(p) ==
    CASE p = "Projects" -> "Runs"
      [] p = "Runs" -> "Metrics"
      [] p = "Metrics" -> "Projects"

\* prev that stops at the first panel instead of wrapping
FocusedPanelPrevNoWrap(p) ==
    CASE p = "Projects" -> "Projects"
      [] p = "Runs" -> "Projects"
      [] p = "Metrics" -> "Runs"

FocusedPanelPrev(p) ==
    CASE p = "Projects" -> "Metrics"
      [] p = "Runs" -> "Projects"
      [] p = "Metrics" -> "Runs"

(***************************************************************************)
(* App.  A method returns the App it leaves behind and how it ended: Ok,   *)
(* Err (the ? operator returned early) or Panic (an index out of range).   *)
(* `st` holds Storage's answers to the calls the method makes.             *)
(***************************************************************************)
Ok(a) == [app |-> a, status |-> "Ok"]
Err(a) == [app |-> a, status |-> "Err"]
Panic(a) == [app |-> a, status |-> "Panic"]

\* ChartConfig::default(): no smoothing, no x_min
ChartConfigDefault == [smoothing |-> 0, x_min |-> <<>>]

AppNewFields ==
    [projects |-> <<>>, runs |-> <<>>, metrics |-> <<>>, metric_names |-> <<>>,
     current_config |-> EmptyConfig,
     comparison |-> AppComparisonStateNew,
     focused |-> "Projects",
     selected_project |-> 0, selected_run |-> 0, selected_metric |-> 0,
     show_help |-> FALSE, should_quit |-> FALSE, error_message |-> None,
     chart_config |-> ChartConfigDefault]

\* faulty variant of load_projects: selected_project is not clamped
LoadProjectsNoClamp(a, st) ==
    IF ~st.projects.ok THEN Err(a)
    ELSE Ok([a EXCEPT !.projects = st.projects.val])

LoadProjects(a, st) ==
    IF ~st.projects.ok THEN Err(a)
    ELSE LET ps == st.projects.val
         IN  Ok([a EXCEPT !.projects = ps,
                          !.selected_project =
                              IF @ >= Len(ps) THEN SaturatingSub1(Len(ps)) ELSE @])

LoadMetrics(a, st) ==
    IF a.runs = <<>>
    THEN Ok([a EXCEPT !.metrics = <<>>, !.metric_names = <<>>,
                      !.current_config = EmptyConfig])
    ELSE IF a.selected_project >= Len(a.projects) \/ a.selected_run >= Len(a.runs)
    THEN Panic(a)
    ELSE IF ~st.names.ok THEN Err(a)
    ELSE LET a1 == [a EXCEPT !.metric_names = st.names.val,
                             !.current_config = RunConfig(At(a.runs, a.selected_run))]
         IN  IF ~st.metrics.ok THEN Err(a1)
             ELSE Ok([a1 EXCEPT !.metrics = st.metrics.val,
                                !.selected_metric =
                                    IF @ >= Len(a1.metric_names)
                                    THEN SaturatingSub1(Len(a1.metric_names))
                                    ELSE @])

LoadRunsImpl(a, clear_comparison, st) ==
    IF a.projects = <<>>
    THEN Ok([a EXCEPT !.runs = <<>>, !.metrics = <<>>, !.metric_names = <<>>,
                      !.current_config = EmptyConfig,
                      !.comparison = AppClear(@)])
    ELSE IF a.selected_project >= Len(a.projects) THEN Panic(a)
    ELSE IF ~st.runs.ok THEN Err(a)
    ELSE LET rs == st.runs.val
             a1 == [a EXCEPT !.runs = rs,
                             !.selected_run =
                                 IF @ >= Len(rs) THEN SaturatingSub1(Len(rs)) ELSE @,
                             !.comparison =
                                 IF clear_comparison THEN AppClear(@)
                                 ELSE AppPruneInvalidRuns(@, Len(rs))]
         IN  LoadMetrics(a1, st)

LoadRuns(a, st) == LoadRunsImpl(a, TRUE, st)

ReloadRuns(a, st) == LoadRunsImpl(a, FALSE, st)

RECURSIVE LoadComparisonLoop(_, _, _, _, _)
\* the for loop over the copy of marked_runs
LoadComparisonLoop(cmp, marked, i, nruns, answers) ==
    IF i > Len(marked) THEN cmp
    ELSE LET run_idx == marked[i]
             next == IF run_idx >= nruns THEN cmp
                     ELSE IF answers[run_idx].ok
                     THEN AppCacheMetrics(cmp, run_idx, answers[run_idx].val)
                     ELSE cmp
         IN  LoadComparisonLoop(next, marked, i + 1, nruns, answers)

LoadComparisonMetrics(a, st) ==
    IF a.projects = <<>> \/ a.runs = <<>> THEN Ok(a)
    ELSE IF a.selected_project >= Len(a.projects) THEN Panic(a)
    ELSE Ok([a EXCEPT !.comparison =
                LoadComparisonLoop(@, a.comparison.marked_runs, 1, Len(a.runs),
                                   st.cmp)])

LoadSingleComparisonRun(a, run_idx, st) ==
    IF a.projects = <<>> \/ run_idx >= Len(a.runs) THEN Ok(a)
    ELSE IF a.selected_project >= Len(a.projects) THEN Panic(a)
    ELSE IF st.cmp[run_idx].ok
    THEN Ok([a EXCEPT !.comparison =
                AppCacheMetrics(@, run_idx, st.cmp[run_idx].val)])
    ELSE Ok(a)

\* each `?` returns the Err (or the panic) of the call it follows
Refresh(a, st) ==
    LET r1 == LoadProjects([a EXCEPT !.error_message = None], st)
        r2 == ReloadRuns(r1.app, st)
    IN  IF r1.status # "Ok" THEN r1
        ELSE IF r2.status # "Ok" THEN r2
        ELSE LoadComparisonMetrics(r2.app, st)

\* faulty variant of set_error: the message is dropped
SetErrorDropped(a, message) == a

SetError(a, message) == [a EXCEPT !.error_message = message]

\* KeyCode values, by name
DigitKeys == {"0", "1", "2", "3", "4", "5", "6", "7", "8", "9"}
ChartKeys == {"+", "=", "-", "[", "]"}

Keys == DigitKeys \cup
        {"q", "?", "h", "F1", "Esc", "r", "Tab", "BackTab", "+", "=", "-", "[", "]",
         "S", "s", "j", "k", "l", "Down", "Up", "Left", "Right", "Enter", "x"}

\* char::to_digit(10)
ToDigit(c) ==
    CASE c = "0" -> 0 [] c = "1" -> 1 [] c = "2" -> 2 [] c = "3" -> 3 [] c = "4" -> 4
      [] c = "5" -> 5 [] c = "6" -> 6 [] c = "7" -> 7 [] c = "8" -> 8 [] c = "9" -> 9

HandleProjectNavigation(a, key, st) ==
    IF key \in {"Down", "j"}
    THEN IF a.projects # <<>>
         THEN LoadRuns([a EXCEPT !.selected_project = (@ + 1) % Len(a.projects)], st)
         ELSE Ok(a)
    ELSE IF key \in {"Up", "k"}
    THEN IF a.projects # <<>>
         THEN LoadRuns([a EXCEPT !.selected_project =
                           IF @ = 0 THEN Len(a.projects) - 1 ELSE @ - 1], st)
         ELSE Ok(a)
    ELSE IF key \in {"Enter", "l"}
    THEN Ok([a EXCEPT !.focused = "Runs"])
    ELSE Ok(a)

HandleRunNavigation(a, key, st) ==
    IF key \in {"Down", "j"}
    THEN IF a.runs # <<>>
         THEN LoadMetrics([a EXCEPT !.selected_run = (@ + 1) % Len(a.runs)], st)
         ELSE Ok(a)
    ELSE IF key \in {"Up", "k"}
    THEN IF a.runs # <<>>
         THEN LoadMetrics([a EXCEPT !.selected_run =
                              IF @ = 0 THEN Len(a.runs) - 1 ELSE @ - 1], st)
         ELSE Ok(a)
    ELSE IF key \in {"Enter", "l"}
    THEN Ok([a EXCEPT !.focused = "Metrics"])
    ELSE IF key = "Esc"
    THEN Ok([a EXCEPT !.focused = "Projects"])
    ELSE Ok(a)

HandleMetricNavigation(a, key) ==
    IF key \in {"Down", "j", "Right", "l"}
    THEN IF a.metric_names # <<>>
         THEN Ok([a EXCEPT !.selected_metric = (@ + 1) % Len(a.metric_names)])
         ELSE Ok(a)
    ELSE IF key \in {"Up", "k", "Left"}
    THEN IF a.metric_names # <<>>
         THEN Ok([a EXCEPT !.selected_metric =
                     IF @ = 0 THEN Len(a.metric_names) - 1 ELSE @ - 1])
         ELSE Ok(a)
    ELSE IF key = "Esc"
    THEN Ok([a EXCEPT !.focused = "Runs"])
    ELSE Ok(a)

\* faulty variant of the '+' key: the factor is not capped
SmoothingUpUncapped(smoothing) == smoothing + 5

\* (smoothing + 0.05).min(0.99), in hundredths
SmoothingUp(smoothing) == IF smoothing + 5 < 99 THEN smoothing + 5 ELSE 99

\* (smoothing - 0.05).max(0.0), in hundredths
SmoothingDown(smoothing) == IF smoothing - 5 > 0 THEN smoothing - 5 ELSE 0

\* '[': zoom out
ZoomOut(c) ==
    IF c.x_min # <<>> THEN [c EXCEPT !.x_min = <<c.x_min[1] - 50>>] ELSE c

\* ']': zoom in; step_range is that of the first metric, <<>> when there is
\* no metric or it has no point, else <<max>>
ZoomIn(c, step_range) ==
    IF c.x_min = <<>>
    THEN IF step_range # <<>>
         THEN [c EXCEPT !.x_min =
                  <<IF step_range[1] - 100 > 0 THEN step_range[1] - 100 ELSE 0>>]
         ELSE c
    ELSE [c EXCEPT !.x_min = <<IF c.x_min[1] + 50 > 0 THEN c.x_min[1] + 50 ELSE 0>>]

\* handle_input after the global shortcuts and the help check
HandleUnlessHelp(a, key, st) ==
    IF key \in DigitKeys /\ ToDigit(key) > 0
            /\ ToDigit(key) <= Len(a.metric_names)
    THEN Ok([a EXCEPT !.selected_metric = ToDigit(key) - 1])
    ELSE IF key \in {"+", "="}
    THEN Ok([a EXCEPT !.chart_config.smoothing = SmoothingUp(@)])
    ELSE IF key = "-"
    THEN Ok([a EXCEPT !.chart_config.smoothing = SmoothingDown(@)])
    ELSE IF key = "["
    THEN Ok([a EXCEPT !.chart_config = ZoomOut(@)])
    ELSE IF key = "]"
    THEN Ok([a EXCEPT !.chart_config =
                ZoomIn(@, IF a.metrics = <<>> THEN <<>> ELSE st.step_range)])
    ELSE IF key = "S" THEN Ok([a EXCEPT !.comparison = AppClear(@)])
    ELSE IF key = "s" /\ a.focused = "Runs"
    THEN LET t == AppToggleRun(a.comparison, a.selected_run)
             a1 == [a EXCEPT !.comparison = t.self]
         IN  IF t.ret THEN LoadSingleComparisonRun(a1, a.selected_run, st)
             ELSE Ok(a1)
    ELSE IF a.focused = "Projects" THEN HandleProjectNavigation(a, key, st)
    ELSE IF a.focused = "Runs" THEN HandleRunNavigation(a, key, st)
    ELSE HandleMetricNavigation(a, key)

\* faulty variant of handle_input: the help overlay does not stop the keys
HandleInputHelpIgnored(a, key, st) ==
    IF key = "q" THEN Ok([a EXCEPT !.should_quit = TRUE])
    ELSE IF key \in {"?", "h", "F1"} THEN Ok([a EXCEPT !.show_help = ~@])
    ELSE IF key = "Esc" /\ a.show_help THEN Ok([a EXCEPT !.show_help = FALSE])
    ELSE IF key = "r" THEN Refresh(a, st)
    ELSE IF key = "Tab" THEN Ok([a EXCEPT !.focused = FocusedPanelNext(@)])
    ELSE IF key = "BackTab" THEN Ok([a EXCEPT !.focused = FocusedPanelPrev(@)])
    ELSE HandleUnlessHelp(a, key, st)

HandleInput(a, key, st) ==
    IF key = "q" THEN Ok([a EXCEPT !.should_quit = TRUE])
    ELSE IF key \in {"?", "h", "F1"} THEN Ok([a EXCEPT !.show_help = ~@])
    ELSE IF key = "Esc" /\ a.show_help THEN Ok([a EXCEPT !.show_help = FALSE])
    ELSE IF key = "r" THEN Refresh(a, st)
    ELSE IF key = "Tab" THEN Ok([a EXCEPT !.focused = FocusedPanelNext(@)])
    ELSE IF key = "BackTab" THEN Ok([a EXCEPT !.focused = FocusedPanelPrev(@)])
    ELSE IF a.show_help THEN Ok(a)
    ELSE HandleUnlessHelp(a, key, st)

\* App::new
AppNew(config_project, st) ==
    LET r1 == LoadProjects(AppNewFields, st)
        a1 == r1.app
    IN  IF r1.status # "Ok" THEN r1
        ELSE IF config_project # NoProject
        THEN IF \E idx \in DOMAIN a1.projects : a1.projects[idx] = config_project
             THEN LoadRuns([a1 EXCEPT !.selected_project =
                               (CHOOSE idx \in DOMAIN a1.projects :
                                    a1.projects[idx] = config_project) - 1], st)
             ELSE Ok(a1)
        ELSE IF a1.projects # <<>> THEN LoadRuns(a1, st)
        ELSE Ok(a1)

\* run_main_loop: the timer's refresh, and the dispatch of one key event; an
\* Err of either is turned into the error message
LoopRefresh(a, st) ==
    LET r == Refresh(a, st)
    IN  IF r.status = "Err"
        THEN [r EXCEPT !.app = SetError(@, "Refresh error")]
        ELSE r

LoopKey(a, key, st) ==
    LET r == HandleInput(a, key, st)
    IN  IF r.status = "Err"
        THEN [r EXCEPT !.app = SetError(@, "Input error")]
        ELSE r

(***************************************************************************)
(* Storage's answers to one method's calls.  A call that the method does   *)
(* not reach is given the answer Err.  A store is what Storage may hold:   *)
(* the project lists, run lists, metric name lists and metric lists that   *)
(* its calls can return.                                                   *)
(***************************************************************************)
RunIndices == 0..(MaxRuns - 1)

NoCmpAnswers == [i \in RunIndices |-> ErrAnswer]

NoAnswers ==
    [projects |-> ErrAnswer, runs |-> ErrAnswer, names |-> ErrAnswer,
     metrics |-> ErrAnswer, cmp |-> NoCmpAnswers, step_range |-> <<>>]

Store(pl, rl, nl, ml) ==
    [project_lists |-> pl, run_lists |-> rl, name_lists |-> nl, metric_lists |-> ml]

\* list_metrics, then get_all_metrics
MetricsAnswers(store) ==
    {NoAnswers} \cup
    {[NoAnswers EXCEPT !.names = OkAnswer(n), !.metrics = m] :
        n \in store.name_lists, m \in Answers(store.metric_lists)}

\* list_runs, then, of a run list that is not empty, list_metrics and
\* get_all_metrics
RunsAnswers(store) ==
    {NoAnswers} \cup
    {[NoAnswers EXCEPT !.runs = OkAnswer(r)] : r \in store.run_lists \cap {<<>>}} \cup
    {[st EXCEPT !.runs = OkAnswer(r)] :
        st \in MetricsAnswers(store), r \in store.run_lists \ {<<>>}}

\* get_all_metrics for each of the run indices in `idxs`
CmpAnswers(store, idxs) ==
    {[i \in RunIndices |-> IF i \in idxs THEN f[i] ELSE ErrAnswer] :
        f \in [idxs -> Answers(store.metric_lists)]}

\* list_projects, then, of a project list that is not empty, list_runs,
\* list_metrics, get_all_metrics, and, when none of them failed and there are
\* runs, get_all_metrics for the marked indices the new run list has
RefreshAnswers(store, idxs) ==
    {NoAnswers} \cup
    {[NoAnswers EXCEPT !.projects = OkAnswer(p)] :
        p \in store.project_lists \cap {<<>>}} \cup
    UNION {{[st EXCEPT !.projects = OkAnswer(p), !.cmp = c] :
               c \in IF st.runs.ok /\ st.runs.val # <<>> /\ st.metrics.ok
                     THEN CmpAnswers(store, {i \in idxs : i < Len(st.runs.val)})
                     ELSE {NoCmpAnswers}} :
           st \in RunsAnswers(store), p \in store.project_lists \ {<<>>}}

\* the answers a store can give to each method
Env(store, keys) ==
    [keys |-> keys,
     metrics |-> MetricsAnswers(store),
     runs |-> RunsAnswers(store),
     cmp |-> [idxs \in SUBSET RunIndices |->
                 {[NoAnswers EXCEPT !.cmp = c] : c \in CmpAnswers(store, idxs)}],
     refresh |-> [idxs \in SUBSET RunIndices |-> RefreshAnswers(store, idxs)]]

\* A store whose projects and runs come, go and change order, every run
\* logging the one same metric; the user leaves the help overlay closed and
\* the chart configuration as it is.
EnvRuns ==
    Env(Store(ProjectLists, RunLists, {<<1>>}, {<<1>>}),
        Keys \ ({"?", "h", "F1"} \cup ChartKeys))

\* A store of one project with one run, whose metrics come and go; the user
\* presses any key but those of the chart configuration.
EnvMetrics ==
    Env(Store({<<1>>}, {<<1>>}, MetricNameLists, MetricLists), Keys \ ChartKeys)

\* A store of one project with one run and one metric; the user changes the
\* chart configuration, opens and closes the help overlay, and presses some
\* of the other keys.
EnvChart ==
    Env(Store({<<1>>}, {<<1>>}, {<<1>>}, {<<1>>}),
        ChartKeys \cup {"q", "?", "Esc", "Tab", "1", "S", "s", "j", "x"})

(***************************************************************************)
(* The main loop's steps.                                                  *)
(***************************************************************************)
App ==
    [projects |-> projects, runs |-> runs, metrics |-> metrics,
     metric_names |-> metric_names, current_config |-> current_config,
     comparison |-> comparison, focused |-> focused,
     selected_project |-> selected_project, selected_run |-> selected_run,
     selected_metric |-> selected_metric, show_help |-> show_help,
     should_quit |-> should_quit, error_message |-> error_message,
     chart_config |-> chart_config]

AppIs(a) ==
    /\ projects = a.projects
    /\ runs = a.runs
    /\ metrics = a.metrics
    /\ metric_names = a.metric_names
    /\ current_config = a.current_config
    /\ comparison = a.comparison
    /\ focused = a.focused
    /\ selected_project = a.selected_project
    /\ selected_run = a.selected_run
    /\ selected_metric = a.selected_metric
    /\ show_help = a.show_help
    /\ should_quit = a.should_quit
    /\ error_message = a.error_message
    /\ chart_config = a.chart_config

AppAssign(r) ==
    /\ projects' = r.app.projects
    /\ runs' = r.app.runs
    /\ metrics' = r.app.metrics
    /\ metric_names' = r.app.metric_names
    /\ current_config' = r.app.current_config
    /\ comparison' = r.app.comparison
    /\ focused' = r.app.focused
    /\ selected_project' = r.app.selected_project
    /\ selected_run' = r.app.selected_run
    /\ selected_metric' = r.app.selected_metric
    /\ show_help' = r.app.show_help
    /\ should_quit' = r.app.should_quit
    /\ error_message' = r.app.error_message
    /\ chart_config' = r.app.chart_config
    /\ app_status' = r.status

AppBecomes(r) == AppAssign(r) /\ UNCHANGED nonAppVars

\* run() builds the App before the loop; a failing App::new ends the program
AppInit(env) ==
    \E config_project \in {NoProject} \cup ProjectNames, st \in env.refresh[{}] :
        LET r == AppNew(config_project, st)
        IN  /\ r.status = "Ok"
            /\ AppIs(r.app)
            /\ app_status = "Ok"

\* the loop goes on until should_quit; a panic ends the program
Running == ~should_quit /\ app_status # "Panic"

MarkedIndices == Range(comparison.marked_runs) \cap RunIndices

\* the refresh interval has elapsed
TimerRefresh(env) ==
    /\ Running
    /\ \E st \in env.refresh[MarkedIndices] : (\E res \in {LoopRefresh(App, st)} : AppBecomes(res))

\* 'r'
KeyRefresh(env) ==
    /\ Running
    /\ \E st \in env.refresh[MarkedIndices] : (\E res \in {LoopKey(App, "r", st)} : AppBecomes(res))

NavKeys == {"j", "k", "Down", "Up"}

\* a key that moves the project selection
KeyProjectNavigation(env) ==
    /\ Running
    /\ ~show_help /\ focused = "Projects"
    /\ \E key \in NavKeys \cap env.keys, st \in env.runs :
           (\E res \in {LoopKey(App, key, st)} : AppBecomes(res))

\* a key that moves the run selection
KeyRunNavigation(env) ==
    /\ Running
    /\ ~show_help /\ focused = "Runs"
    /\ \E key \in NavKeys \cap env.keys, st \in env.metrics :
           (\E res \in {LoopKey(App, key, st)} : AppBecomes(res))

\* 's' on the Runs panel
KeyToggleComparison(env) ==
    /\ Running
    /\ ~show_help /\ focused = "Runs"
    /\ \E st \in env.cmp[{selected_run} \cap RunIndices] :
           (\E res \in {LoopKey(App, "s", st)} : AppBecomes(res))

\* every key event that makes no Storage call
KeyOther(env) ==
    /\ Running
    /\ \E key \in env.keys \ ({"r"} \cup ChartKeys) :
           /\ ~(key \in NavKeys /\ ~show_help /\ focused \in {"Projects", "Runs"})
           /\ ~(key = "s" /\ ~show_help /\ focused = "Runs")
           /\ (\E res \in {LoopKey(App, key, NoAnswers)} : AppBecomes(res))

AppNext(env) ==
    \/ TimerRefresh(env)
    \/ KeyRefresh(env)
    \/ KeyProjectNavigation(env)
    \/ KeyRunNavigation(env)
    \/ KeyToggleComparison(env)
    \/ KeyOther(env)

\* the application (data::ComparisonState unused: app.rs has its own)
InitRuns == CmpInit /\ AppInit(EnvRuns) /\ SlotIdle /\ RunIdle /\ UiIdle

SpecApp == InitRuns /\ [][AppNext(EnvRuns)]_vars

\* the application on a store whose metrics come and go
InitMetrics == CmpInit /\ AppInit(EnvMetrics) /\ SlotIdle /\ RunIdle /\ UiIdle

SpecAppMetrics == InitMetrics /\ [][AppNext(EnvMetrics)]_vars

MaxLastStep == 150
MaxXMin == 100

\* Metric::step_range of the first metric: no point, or the last step
StepRanges == {<<>>, <<0>>, <<MaxLastStep>>}

\* a key of the chart configuration; x_min is followed up to MaxXMin either
\* way
KeyChart(env) ==
    /\ Running
    /\ \E key \in ChartKeys \cap env.keys, r \in StepRanges :
           \E res \in {LoopKey(App, key, [NoAnswers EXCEPT !.step_range = r])} :
               /\ \A x \in Range(res.app.chart_config.x_min) :
                      x >= -MaxXMin /\ x <= MaxXMin
               /\ AppBecomes(res)

AppChartNext(env) ==
    \/ AppNext(env)
    \/ KeyChart(env)

\* the application with the keys of the chart configuration
InitAppChart == CmpInit /\ AppInit(EnvChart) /\ SlotIdle /\ RunIdle /\ UiIdle

SpecAppChart == InitAppChart /\ [][AppChartNext(EnvChart)]_vars

(***************************************************************************)
(* ui::MetricSlotState (src/ui/metric_selector.rs).                        *)
(***************************************************************************)
MAX_SLOTS == 9

MaxNumMetrics == 11
MaxWindowStart == 12
MaxSelectedSlot == 10
MaxOverlayNames == 1

NumMetricsValues == 0..MaxNumMetrics
WindowStarts == 0..MaxWindowStart
SlotValues == 0..MaxSelectedSlot
OverlayNames == 1..MaxOverlayNames

Min(a, b) == IF a < b THEN a ELSE b

MetricSlotStateNew ==
    [selected_slot |-> 0, window_start |-> 0, selected_metrics |-> {}]

NumVisibleSlots(n) == Min(n, MAX_SLOTS)

\* faulty variant of selected_metric: the sum is not reduced modulo the count
SelectedMetricNoWrap(s, n) ==
    IF n = 0 THEN 0 ELSE s.window_start + s.selected_slot

SelectedMetric(s, n) ==
    IF n = 0 THEN 0 ELSE (s.window_start + s.selected_slot) % n

\* faulty variant of select_slot: a slot out of range selects the last one
SelectSlotClamps(s, slot, n) ==
    IF n = 0 THEN s
    ELSE [s EXCEPT !.selected_slot = Min(slot, NumVisibleSlots(n) - 1)]

SelectSlot(s, slot, n) ==
    IF n = 0 THEN s
    ELSE IF slot < NumVisibleSlots(n)
         THEN [s EXCEPT !.selected_slot = slot]
         ELSE s

\* faulty variant of shift_left: the decrement is not reduced modulo the count
ShiftLeftNoWrap(s, n) ==
    IF n <= MAX_SLOTS THEN s
    ELSE [s EXCEPT !.window_start = s.window_start + n - 1]

ShiftLeft(s, n) ==
    IF n <= MAX_SLOTS THEN s
    ELSE [s EXCEPT !.window_start = (s.window_start + n - 1) % n]

\* faulty variant of shift_right: it moves the selected slot, not the window
ShiftRightMovesSlot(s, n) ==
    IF n <= MAX_SLOTS THEN s
    ELSE [s EXCEPT !.selected_slot = (s.selected_slot + 1) % MAX_SLOTS]

\* faulty variant of shift_right: a list of exactly MAX_SLOTS metrics shifts
ShiftRightAtMaxSlots(s, n) ==
    IF n < MAX_SLOTS THEN s
    ELSE [s EXCEPT !.window_start = (s.window_start + 1) % n]

\* faulty variant of shift_right: the window moves by two
ShiftRightByTwo(s, n) ==
    IF n <= MAX_SLOTS THEN s
    ELSE [s EXCEPT !.window_start = (s.window_start + 2) % n]

ShiftRight(s, n) ==
    IF n <= MAX_SLOTS THEN s
    ELSE [s EXCEPT !.window_start = (s.window_start + 1) % n]

\* faulty variant of clamp: only window_start is normalised
ClampWindowOnly(s, n) ==
    IF n = 0 THEN MetricSlotStateNew
    ELSE [s EXCEPT !.window_start = s.window_start % n]

\* faulty variant of clamp: window_start is left as it is
ClampSlotOnly(s, n) ==
    IF n = 0 THEN MetricSlotStateNew
    ELSE IF s.selected_slot >= NumVisibleSlots(n)
    THEN [s EXCEPT !.selected_slot = SaturatingSub1(NumVisibleSlots(n))]
    ELSE s

Clamp(s, n) ==
    IF n = 0
    THEN [selected_slot |-> 0, window_start |-> 0, selected_metrics |-> {}]
    ELSE LET w == [s EXCEPT !.window_start = s.window_start % n]
             num_visible == NumVisibleSlots(n)
         IN  IF w.selected_slot >= num_visible
             THEN [w EXCEPT !.selected_slot = SaturatingSub1(num_visible)]
             ELSE w

ToggleMetric(s, metric_name) ==
    IF metric_name \in s.selected_metrics
    THEN [s EXCEPT !.selected_metrics = @ \ {metric_name}]
    ELSE [s EXCEPT !.selected_metrics = @ \cup {metric_name}]

ClearSelection(s) == [s EXCEPT !.selected_metrics = {}]

SlotSelf ==
    [selected_slot |-> selected_slot, window_start |-> window_start,
     selected_metrics |-> selected_metrics]

SlotOp(name, arg) == [name |-> name, arg |-> arg]

NoShiftRun == [dir |-> "none", count |-> 0, start |-> 0]

\* the run of shifts in one direction after one more call; a run that has gone
\* once round the list starts again
ShiftRunAfter(op) ==
    IF op.name \notin {"shift_left", "shift_right"} THEN NoShiftRun
    ELSE IF slot_run.dir = op.name /\ slot_run.count < num_metrics
    THEN [slot_run EXCEPT !.count = @ + 1]
    ELSE [dir |-> op.name, count |-> 1, start |-> window_start]

\* one call: the state becomes next, the call returns ret
SlotStep(op, next, ret) ==
    /\ selected_slot' = next.selected_slot
    /\ window_start' = next.window_start
    /\ selected_metrics' = next.selected_metrics
    /\ slot_op' = op
    /\ slot_pre' = SlotSelf
    /\ slot_ret' = ret
    /\ slot_clamped' = (slot_clamped \/ op.name = "clamp")
    /\ slot_before_right' =
           IF op.name = "shift_left" /\ slot_op.name = "shift_right"
           THEN <<slot_pre.window_start>>
           ELSE <<>>
    /\ slot_run' = ShiftRunAfter(op)
    /\ UNCHANGED num_metrics

CallSelectedMetric ==
    /\ SlotStep(SlotOp("selected_metric", 0), SlotSelf,
                SelectedMetric(SlotSelf, num_metrics))
    /\ UNCHANGED nonSlotVars

CallSelectSlot ==
    /\ \E slot \in SlotValues :
           SlotStep(SlotOp("select_slot", slot),
                    SelectSlot(SlotSelf, slot, num_metrics), Unit)
    /\ UNCHANGED nonSlotVars

CallShiftLeft ==
    /\ SlotStep(SlotOp("shift_left", 0), ShiftLeft(SlotSelf, num_metrics), Unit)
    /\ UNCHANGED nonSlotVars

CallShiftRight ==
    /\ SlotStep(SlotOp("shift_right", 0), ShiftRight(SlotSelf, num_metrics), Unit)
    /\ UNCHANGED nonSlotVars

CallClamp ==
    /\ SlotStep(SlotOp("clamp", 0), Clamp(SlotSelf, num_metrics), Unit)
    /\ UNCHANGED nonSlotVars

CallToggleMetric ==
    /\ \E metric_name \in OverlayNames :
           SlotStep(SlotOp("toggle_metric", metric_name),
                    ToggleMetric(SlotSelf, metric_name), Unit)
    /\ UNCHANGED nonSlotVars

CallClearSelection ==
    /\ SlotStep(SlotOp("clear_selection", 0), ClearSelection(SlotSelf), Unit)
    /\ UNCHANGED nonSlotVars

\* the caller's metric list changes length; the state is not touched
MetricsChange ==
    /\ \E n \in NumMetricsValues \ {num_metrics} : num_metrics' = n
    /\ slot_op' = SlotOp("metrics_change", num_metrics)
    /\ slot_pre' = SlotSelf
    /\ slot_ret' = Unit
    /\ slot_clamped' = FALSE
    /\ slot_before_right' = <<>>
    /\ slot_run' = NoShiftRun
    /\ UNCHANGED <<selected_slot, window_start, selected_metrics>>
    /\ UNCHANGED nonSlotVars

SlotNext ==
    \/ CallSelectedMetric
    \/ CallSelectSlot
    \/ CallShiftLeft
    \/ CallShiftRight
    \/ CallClamp
    \/ CallToggleMetric
    \/ CallClearSelection
    \/ MetricsChange

\* a fresh MetricSlotState and a caller that clamps or not as it pleases
SlotInit ==
    /\ selected_slot = MetricSlotStateNew.selected_slot
    /\ window_start = MetricSlotStateNew.window_start
    /\ selected_metrics = MetricSlotStateNew.selected_metrics
    /\ num_metrics \in NumMetricsValues
    /\ slot_op = SlotOp("new", 0)
    /\ slot_pre = MetricSlotStateNew
    /\ slot_ret = Unit
    /\ slot_clamped = TRUE
    /\ slot_before_right = <<>>
    /\ slot_run = [dir |-> "none", count |-> 0, start |-> 0]

InitSlot == CmpInit /\ AppIdle /\ SlotInit /\ RunIdle /\ UiIdle

SpecSlot == InitSlot /\ [][SlotNext]_vars

\* any MetricSlotState: the fields are public and may hold any value
SlotInitAny ==
    /\ selected_slot \in SlotValues
    /\ window_start \in WindowStarts
    /\ selected_metrics \in SUBSET OverlayNames
    /\ num_metrics \in NumMetricsValues
    /\ slot_op = SlotOp("new", 0)
    /\ slot_pre = SlotSelf
    /\ slot_ret = Unit
    /\ slot_clamped = FALSE
    /\ slot_before_right = <<>>
    /\ slot_run = [dir |-> "none", count |-> 0, start |-> 0]

InitSlotAny == CmpInit /\ AppIdle /\ SlotInitAny /\ RunIdle /\ UiIdle

SpecSlotAny == InitSlotAny /\ [][SlotNext]_vars

(***************************************************************************)
(* run() and run_main_loop (src/app.rs).                                   *)
(***************************************************************************)
\* restore_terminal(): best effort, its own errors ignored
RestoreTerminal(t) ==
    [raw_mode |-> FALSE, alternate_screen |-> FALSE,
     restore_calls |-> t.restore_calls + 1]

\* faulty variant of the error paths of run(): the error is returned as it is
ReturnErrUnrestored(t) == t

\* `restore_terminal(); return Err(e)` of a failed set-up step
ReturnErrRestored(t) == RestoreTerminal(t)

\* faulty variant of the loop's error handling: the error leaves the loop
LoopFlowPropagates(r) ==
    IF r.status = "Panic" THEN "panic"
    ELSE IF r.status = "Err" THEN "return"
    ELSE "continue"

\* `if let Err(e) = ... { app.set_error(...) }`: the loop goes on after Ok and
\* after Err; a panic unwinds out of it
LoopFlow(r) == IF r.status = "Panic" THEN "panic" ELSE "continue"

\* what a step of the loop did, and the key it was done for
IterStep(step, key) == [step |-> step, key |-> key]

\* the Storage answers that handle_input meets for a key
KeyAnswers(env, key) ==
    IF key = "r" THEN env.refresh[MarkedIndices]
    ELSE IF key \in NavKeys /\ ~show_help /\ focused = "Projects" THEN env.runs
    ELSE IF key \in NavKeys /\ ~show_help /\ focused = "Runs" THEN env.metrics
    ELSE IF key = "s" /\ ~show_help /\ focused = "Runs"
    THEN env.cmp[{selected_run} \cap RunIndices]
    ELSE {NoAnswers}

\* after a method called by the loop ended as r did; refreshed: it was refresh()
LoopGoesOn(r, next_pc, refreshed) ==
    LET flow == LoopFlow(r)
    IN  /\ pc' = (IF flow = "continue" THEN next_pc
                  ELSE IF flow = "panic" THEN "panicked"
                  ELSE "loop_returned")
        /\ loop_result' = (IF flow = "return" THEN "Err" ELSE loop_result)
        /\ err_unrendered' =
               (IF r.status = "Err" THEN "Set"
                ELSE IF refreshed /\ r.status = "Ok" /\ err_unrendered = "Set"
                THEN "Refreshed"
                ELSE err_unrendered)

\* run() returns Err(e) from a failed set-up step
RunFails(t) ==
    /\ terminal' = t
    /\ run_result' = "Err"
    /\ pc' = "returned"

\* faulty variant of the poll step: the refresh check comes after the poll
LoopPollThenTimer ==
    /\ pc = "poll"
    /\ pc' = "timer"
    /\ iter_steps' = Append(iter_steps, IterStep("poll", None))
    /\ UNCHANGED <<terminal, raw_enabled, refresh_due, run_result, err_unrendered,
                   loop_result>>
    /\ UNCHANGED appVars
    /\ UNCHANGED nonRunVars

\* the database path is looked up
RunStart ==
    /\ pc = "run"
    /\ \E exists \in BOOLEAN :
           IF exists
           THEN pc' = "enable_raw_mode" /\ UNCHANGED run_result
           ELSE pc' = "returned" /\ run_result' = "Ok"
    /\ UNCHANGED <<terminal, raw_enabled, refresh_due, loop_result, iter_steps,
                   err_unrendered>>
    /\ UNCHANGED appVars
    /\ UNCHANGED nonRunVars

\* enable_raw_mode()?
EnableRawMode ==
    /\ pc = "enable_raw_mode"
    /\ \E ok \in BOOLEAN :
           IF ok
           THEN /\ terminal' = [terminal EXCEPT !.raw_mode = TRUE]
                /\ raw_enabled' = TRUE
                /\ pc' = "enter_alternate_screen"
                /\ UNCHANGED run_result
           ELSE /\ RunFails(terminal)
                /\ UNCHANGED raw_enabled
    /\ UNCHANGED <<refresh_due, loop_result, iter_steps, err_unrendered>>
    /\ UNCHANGED appVars
    /\ UNCHANGED nonRunVars

\* execute!(stdout, EnterAlternateScreen, EnableMouseCapture)
EnterAlternateScreen ==
    /\ pc = "enter_alternate_screen"
    /\ \E ok \in BOOLEAN :
           IF ok
           THEN /\ terminal' = [terminal EXCEPT !.alternate_screen = TRUE]
                /\ pc' = "terminal_new"
                /\ UNCHANGED run_result
           ELSE RunFails(ReturnErrRestored(terminal))
    /\ UNCHANGED <<raw_enabled, refresh_due, loop_result, iter_steps,
                   err_unrendered>>
    /\ UNCHANGED appVars
    /\ UNCHANGED nonRunVars

\* Terminal::new(backend)
TerminalNew ==
    /\ pc = "terminal_new"
    /\ \E ok \in BOOLEAN :
           IF ok
           THEN pc' = "app_new" /\ UNCHANGED <<terminal, run_result>>
           ELSE RunFails(ReturnErrRestored(terminal))
    /\ UNCHANGED <<raw_enabled, refresh_due, loop_result, iter_steps,
                   err_unrendered>>
    /\ UNCHANGED appVars
    /\ UNCHANGED nonRunVars

\* App::new(config)
RunAppNew(env) ==
    /\ pc = "app_new"
    /\ \E config_project \in {NoProject} \cup ProjectNames, st \in env.refresh[{}] :
           LET r == AppNew(config_project, st)
           IN  IF r.status = "Ok"
               THEN /\ AppAssign(r)
                    /\ pc' = "draw"
                    /\ UNCHANGED <<terminal, run_result>>
               ELSE IF r.status = "Err"
               THEN /\ RunFails(ReturnErrRestored(terminal))
                    /\ UNCHANGED appVars
               ELSE /\ pc' = "panicked"
                    /\ UNCHANGED <<terminal, run_result>>
                    /\ UNCHANGED appVars
    /\ UNCHANGED <<raw_enabled, refresh_due, loop_result, iter_steps,
                   err_unrendered>>
    /\ UNCHANGED nonRunVars

\* the loop returns the error of a terminal call
LoopFails ==
    /\ loop_result' = "Err"
    /\ pc' = "loop_returned"

\* terminal.draw(|f| app.render(f))?
LoopDraw ==
    /\ pc = "draw"
    /\ \E ok \in BOOLEAN :
           IF ok
           THEN /\ pc' = "timer"
                /\ iter_steps' = <<IterStep("render", None)>>
                /\ err_unrendered' = None
                /\ UNCHANGED loop_result
           ELSE /\ LoopFails
                /\ UNCHANGED <<iter_steps, err_unrendered>>
    /\ UNCHANGED <<terminal, raw_enabled, refresh_due, run_result>>
    /\ UNCHANGED appVars
    /\ UNCHANGED nonRunVars

\* if app.last_refresh.elapsed() >= tick_rate { app.refresh() ... }
LoopTimer(env) ==
    /\ pc = "timer"
    /\ \E elapsed \in BOOLEAN :
           IF refresh_due \/ elapsed
           THEN \E st \in env.refresh[MarkedIndices] :
                    LET r == LoopRefresh(App, st)
                    IN  /\ AppAssign(r)
                        /\ LoopGoesOn(r, "poll", TRUE)
                        /\ refresh_due' = (r.status # "Ok")
                        /\ iter_steps' = Append(iter_steps, IterStep("refresh", None))
           ELSE /\ pc' = "poll"
                /\ UNCHANGED <<refresh_due, loop_result, iter_steps, err_unrendered>>
                /\ UNCHANGED appVars
    /\ UNCHANGED <<terminal, raw_enabled, run_result>>
    /\ UNCHANGED nonRunVars

\* event::poll(timeout)?
LoopPoll ==
    /\ pc = "poll"
    /\ \E answer \in {"Err", "none", "event"} :
           IF answer = "Err"
           THEN LoopFails /\ UNCHANGED iter_steps
           ELSE /\ pc' = (IF answer = "event" THEN "read" ELSE "quit_check")
                /\ iter_steps' = Append(iter_steps, IterStep("poll", None))
                /\ UNCHANGED loop_result
    /\ UNCHANGED <<terminal, raw_enabled, refresh_due, run_result, err_unrendered>>
    /\ UNCHANGED appVars
    /\ UNCHANGED nonRunVars

\* event::read()? gives an error or an event that is no key event
LoopReadOther ==
    /\ pc = "read"
    /\ \E ok \in BOOLEAN :
           IF ok
           THEN pc' = "quit_check" /\ UNCHANGED loop_result
           ELSE LoopFails
    /\ UNCHANGED <<terminal, raw_enabled, refresh_due, run_result, iter_steps,
                   err_unrendered>>
    /\ UNCHANGED appVars
    /\ UNCHANGED nonRunVars

\* event::read()? gives a key event: app.handle_input(key.code, key.modifiers)
LoopDispatch(env) ==
    /\ pc = "read"
    /\ \E key \in env.keys :
           \E st \in KeyAnswers(env, key) :
               LET r == LoopKey(App, key, st)
               IN  /\ AppAssign(r)
                   /\ LoopGoesOn(r, "quit_check", key = "r")
                   /\ refresh_due' = (refresh_due /\ ~(key = "r" /\ r.status = "Ok"))
                   /\ iter_steps' =
                          iter_steps \o <<IterStep("dispatch", key)>> \o
                          (IF key = "r" THEN <<IterStep("refresh", key)>> ELSE <<>>)
    /\ UNCHANGED <<terminal, raw_enabled, run_result>>
    /\ UNCHANGED nonRunVars

\* faulty variant of the quit check: the loop goes on to the next iteration
LoopQuitCheckGoesOn ==
    /\ pc = "quit_check"
    /\ pc' = "draw"
    /\ UNCHANGED <<terminal, raw_enabled, refresh_due, run_result, iter_steps,
                   err_unrendered, loop_result>>
    /\ UNCHANGED appVars
    /\ UNCHANGED nonRunVars

\* if app.should_quit { return Ok(()) }
LoopQuitCheck ==
    /\ pc = "quit_check"
    /\ IF should_quit
       THEN loop_result' = "Ok" /\ pc' = "loop_returned"
       ELSE pc' = "draw" /\ UNCHANGED loop_result
    /\ UNCHANGED <<terminal, raw_enabled, refresh_due, run_result, iter_steps,
                   err_unrendered>>
    /\ UNCHANGED appVars
    /\ UNCHANGED nonRunVars

\* run_main_loop has returned: restore_terminal(); show_cursor; result
RunFinish ==
    /\ pc = "loop_returned"
    /\ terminal' = RestoreTerminal(terminal)
    /\ run_result' = loop_result
    /\ pc' = "returned"
    /\ UNCHANGED <<raw_enabled, refresh_due, loop_result, iter_steps, err_unrendered>>
    /\ UNCHANGED appVars
    /\ UNCHANGED nonRunVars

RunNext(env) ==
    \/ RunStart
    \/ EnableRawMode
    \/ EnterAlternateScreen
    \/ TerminalNew
    \/ RunAppNew(env)
    \/ LoopDraw
    \/ LoopTimer(env)
    \/ LoopPoll
    \/ LoopReadOther
    \/ LoopDispatch(env)
    \/ LoopQuitCheck
    \/ RunFinish

RunInit ==
    /\ pc = "run"
    /\ terminal = [raw_mode |-> FALSE, alternate_screen |-> FALSE, restore_calls |-> 0]
    /\ raw_enabled = FALSE
    /\ refresh_due = FALSE
    /\ loop_result = None /\ run_result = None
    /\ iter_steps = <<>>
    /\ err_unrendered = None

\* A store of one project whose one run comes and goes, logging the one same
\* metric; the user presses the keys that quit, refresh, move and mark.
EnvRun ==
    Env(Store({<<1>>}, {<<>>, <<1>>}, {<<1>>}, {<<1>>}),
        {"q", "r", "Tab", "j", "s", "?", "x"})

InitRun == CmpInit /\ AppIdle /\ SlotIdle /\ RunInit /\ UiIdle

\* run() from its call to its return
SpecRun == InitRun /\ [][RunNext(EnvRun)]_vars

(***************************************************************************)
(* Search highlighting in the config panel (src/ui/widgets.rs).  A string  *)
(* is a sequence of characters; its bytes are those of its UTF-8 encoding. *)
(***************************************************************************)
MaxLineChars == 3
MaxQueryChars == 1

\* a, A, i, U+0307 (combining dot above), U+0130 (capital I with dot above),
\* U+1E9E (capital sharp s); U+00DF (sharp s) comes from lowercasing only
LineChars == {"a", "A", "i", "U+0307", "U+0130", "U+1E9E"}

\* the UTF-8 encoding of a character: char::len_utf8 is its length
Utf8(c) ==
    CASE c = "a" -> <<"61">>
      [] c = "A" -> <<"41">>
      [] c = "i" -> <<"69">>
      [] c = "U+0307" -> <<"cc", "87">>
      [] c = "U+0130" -> <<"c4", "b0">>
      [] c = "U+1E9E" -> <<"e1", "ba", "9e">>
      [] c = "U+00DF" -> <<"c3", "9f">>

\* char::to_lowercase
CharToLowercase(c) ==
    CASE c = "A" -> <<"a">>
      [] c = "U+0130" -> <<"i", "U+0307">>
      [] c = "U+1E9E" -> <<"U+00DF">>
      [] OTHER -> <<c>>

RECURSIVE StrBytes(_)
StrBytes(s) == IF s = <<>> THEN <<>> ELSE Utf8(Head(s)) \o StrBytes(Tail(s))

\* str::to_lowercase
RECURSIVE StrToLowercase(_)
StrToLowercase(s) ==
    IF s = <<>> THEN <<>> ELSE CharToLowercase(Head(s)) \o StrToLowercase(Tail(s))

Strings(chars, max) == UNION {[1..n -> chars] : n \in 0..max}

\* str::match_indices on the bytes hay, from byte offset i on: the offsets of
\* the occurrences of needle that do not overlap, left to right
RECURSIVE MatchIndicesFrom(_, _, _)
MatchIndicesFrom(hay, needle, i) ==
    IF i + Len(needle) > Len(hay) THEN <<>>
    ELSE IF SubSeq(hay, i + 1, i + Len(needle)) = needle
    THEN <<i>> \o MatchIndicesFrom(hay, needle, i + Len(needle))
    ELSE MatchIndicesFrom(hay, needle, i + 1)

\* the loop over line.chars(): for every byte of a character's lowercase form,
\* the offset of the character in the line
RECURSIVE LowerToOrigFrom(_, _)
LowerToOrigFrom(s, orig_idx) ==
    IF s = <<>> THEN <<>>
    ELSE [k \in 1..Len(StrBytes(CharToLowercase(Head(s)))) |-> orig_idx]
             \o LowerToOrigFrom(Tail(s), orig_idx + Len(Utf8(Head(s))))

\* the ranges as sequences <<start, end>>, offsets counted from 0
CaseInsensitiveByteRanges(line, query) ==
    IF query = <<>> THEN <<>>
    ELSE LET line_lower == StrBytes(StrToLowercase(line))
             query_lower == StrBytes(StrToLowercase(query))
             starts == MatchIndicesFrom(line_lower, query_lower, 0)
         IN  IF Len(StrBytes(line)) = Len(line_lower)
             THEN [k \in DOMAIN starts |->
                      <<starts[k], starts[k] + Len(query_lower)>>]
             ELSE LET lower_to_orig ==
                          LowerToOrigFrom(line, 0) \o <<Len(StrBytes(line))>>
                      kept == SelectSeq(starts,
                                  LAMBDA start :
                                      start + Len(query_lower) <= Len(lower_to_orig))
                  IN  [k \in DOMAIN kept |->
                          <<lower_to_orig[kept[k] + 1],
                            lower_to_orig[Min(kept[k] + Len(query_lower),
                                              Len(lower_to_orig) - 1) + 1]>>]

\* the byte offsets at which a character of s starts, and its length
RECURSIVE CharBoundariesFrom(_, _)
CharBoundariesFrom(s, idx) ==
    IF s = <<>> THEN {idx}
    ELSE {idx} \cup CharBoundariesFrom(Tail(s), idx + Len(Utf8(Head(s))))

\* &line[from..to] panics unless from <= to <= line.len() and both are
\* character boundaries
SliceOk(line, from, to) ==
    /\ from <= to
    /\ to <= Len(StrBytes(line))
    /\ {from, to} \subseteq CharBoundariesFrom(line, 0)

\* the span loop of ConfigPanel::render over the ranges from the k-th on
RECURSIVE RenderSpansFrom(_, _, _, _)
RenderSpansFrom(line, matches, k, last_end) ==
    IF k > Len(matches)
    THEN IF last_end < Len(StrBytes(line)) /\ ~SliceOk(line, last_end, Len(StrBytes(line)))
         THEN "Panic"
         ELSE "Ok"
    ELSE LET start == matches[k][1]
             end == matches[k][2]
         IN  IF start > last_end /\ ~SliceOk(line, last_end, start) THEN "Panic"
             ELSE IF ~SliceOk(line, start, end) THEN "Panic"
             ELSE RenderSpansFrom(line, matches, k + 1, end)

\* a config line and a search that is not empty
HighlightInit ==
    \E line \in Strings(LineChars, MaxLineChars),
       query \in Strings(LineChars, MaxQueryChars) \ {<<>>} :
        highlight = [line |-> line, query |-> query, ranges |-> <<>>,
                     status |-> "None"]

\* ConfigPanel::render of a matching line: the ranges, then the spans
RenderMatchLine ==
    /\ highlight.status = "None"
    /\ LET matches == CaseInsensitiveByteRanges(highlight.line, highlight.query)
       IN  highlight' = [highlight EXCEPT
                            !.ranges = matches,
                            !.status = RenderSpansFrom(highlight.line, matches, 1, 0)]
    /\ UNCHANGED nonHighlightVars

\* the search is changed
ChangeQuery ==
    /\ highlight.status # "None"
    /\ \E query \in Strings(LineChars, MaxQueryChars) \ {<<>>} :
           highlight' = [line |-> highlight.line, query |-> query,
                         ranges |-> <<>>, status |-> "None"]
    /\ UNCHANGED nonHighlightVars

HighlightNext == RenderMatchLine \/ ChangeQuery

InitHighlight ==
    CmpInit /\ AppIdle /\ SlotIdle /\ RunIdle /\ HighlightInit /\ CfgIdle
        /\ ChartIdle /\ SmoothIdle /\ PlotIdle

SpecHighlight == InitHighlight /\ [][HighlightNext]_vars

(***************************************************************************)
(* ConfigPanelState (src/ui/widgets.rs).  reset and the panel title are    *)
(* the code's; set_query, next_match and prev_match are not in the source  *)
(* and follow section 4.3 of the specification.                            *)
(***************************************************************************)
MaxConfigLines == 2
MaxScroll == 1

ConfigLineIndices == 0..(MaxConfigLines - 1)
CfgQueries == Strings({"a"}, MaxQueryChars)

\* the ascending lists of line indices
MatchLists ==
    {ms \in UNION {[1..n -> ConfigLineIndices] : n \in 0..MaxConfigLines} :
        \A i, j \in DOMAIN ms : i < j => ms[i] < ms[j]}

ConfigPanelStateNew ==
    [scroll_v |-> 0, scroll_h |-> 0, search |-> <<>>, search_active |-> FALSE,
     match_indices |-> <<>>, current_match |-> 0]

\* faulty variant of reset: the search stays active
ResetKeepsActive(s) ==
    [s EXCEPT !.scroll_v = 0, !.scroll_h = 0, !.search = <<>>,
              !.match_indices = <<>>, !.current_match = 0]

ConfigPanelStateReset(s) ==
    [s EXCEPT !.scroll_v = 0, !.scroll_h = 0, !.search = <<>>,
              !.search_active = FALSE, !.match_indices = <<>>,
              !.current_match = 0]

\* set_query(text), `matches` being the lines that contain it: an empty query
\* matches nothing, a cursor beyond the new list goes back to 0
SetQuery(s, text, matches) ==
    LET found == IF text = <<>> THEN <<>> ELSE matches
    IN  [s EXCEPT !.search = text,
                  !.match_indices = found,
                  !.current_match = IF @ < Len(found) THEN @ ELSE 0]

\* faulty variant of next_match: no wraparound
NextMatchNoWrap(s) ==
    IF s.match_indices = <<>> THEN s
    ELSE [s EXCEPT !.current_match = @ + 1]

NextMatch(s) ==
    IF s.match_indices = <<>> THEN s
    ELSE [s EXCEPT !.current_match = (@ + 1) % Len(s.match_indices)]

PrevMatch(s) ==
    IF s.match_indices = <<>> THEN s
    ELSE [s EXCEPT !.current_match =
                       (@ + Len(s.match_indices) - 1) % Len(s.match_indices)]

\* the title ConfigPanel::render builds: its form, and the count it shows
ConfigPanelTitle(s) ==
    IF s.search_active
    THEN IF s.match_indices = <<>> /\ s.search # <<>>
         THEN [form |-> " Config [/{}] (no matches) ", shown |-> <<>>]
         ELSE IF s.match_indices # <<>>
         THEN [form |-> " Config [/{}] ({}/{}) ",
               shown |-> <<s.current_match + 1, Len(s.match_indices)>>]
         ELSE [form |-> " Config [/{}] ", shown |-> <<>>]
    ELSE IF s.search # <<>>
    THEN IF s.match_indices = <<>>
         THEN [form |-> " Config [{}] (no matches) ", shown |-> <<>>]
         ELSE [form |-> " Config [{}] ({}/{}) ",
               shown |-> <<s.current_match + 1, Len(s.match_indices)>>]
    ELSE [form |-> " Config ", shown |-> <<>>]

CfgStep(op, next) ==
    /\ config_panel' = next
    /\ cfg_op' = op
    /\ cfg_pre' = config_panel

CallReset ==
    /\ CfgStep("reset", ConfigPanelStateReset(config_panel))
    /\ UNCHANGED nonCfgVars

CallSetQuery ==
    /\ \E text \in CfgQueries, matches \in MatchLists :
           CfgStep("set_query", SetQuery(config_panel, text, matches))
    /\ UNCHANGED nonCfgVars

CallNextMatch ==
    /\ CfgStep("next_match", NextMatch(config_panel))
    /\ UNCHANGED nonCfgVars

CallPrevMatch ==
    /\ CfgStep("prev_match", PrevMatch(config_panel))
    /\ UNCHANGED nonCfgVars

\* the search line is opened or closed
SetSearchActive ==
    /\ \E active \in BOOLEAN :
           CfgStep("search_active", [config_panel EXCEPT !.search_active = active])
    /\ UNCHANGED nonCfgVars

\* the panel is scrolled
ScrollConfig ==
    /\ \E v, h \in 0..MaxScroll :
           CfgStep("scroll", [config_panel EXCEPT !.scroll_v = v, !.scroll_h = h])
    /\ UNCHANGED nonCfgVars

CfgNext ==
    \/ CallReset
    \/ CallSetQuery
    \/ CallNextMatch
    \/ CallPrevMatch
    \/ SetSearchActive
    \/ ScrollConfig

CfgInit ==
    /\ config_panel = ConfigPanelStateNew
    /\ cfg_op = "new"
    /\ cfg_pre = ConfigPanelStateNew

InitCfg ==
    CmpInit /\ AppIdle /\ SlotIdle /\ RunIdle /\ HighlightIdle /\ CfgInit
        /\ ChartIdle /\ SmoothIdle /\ PlotIdle

SpecCfg == InitCfg /\ [][CfgNext]_vars

(***************************************************************************)
(* calculate_bounds (src/ui/chart.rs).  An f64 is written as a whole       *)
(* number of twentieths, so that the padding of 0.05 of a range is exact;  *)
(* F64Max stands for f64::MAX, which absorbs the addition of 1.0.          *)
(***************************************************************************)
MaxSeries == 2
MaxChartPoints == 2
MaxCoord == 1

PadDivisor == 20
F64Max == 1000000
F64Min == -F64Max

Coords == (-1)..MaxCoord

\* `n as f64`
ToF64(n) == n * PadDivisor

\* a + b for a small b: f64::MAX and f64::MIN swallow it
FAdd(a, b) == IF a = F64Max \/ a = F64Min THEN a ELSE a + b

FMin(a, b) == IF b < a THEN b ELSE a

FMax(a, b) == IF b > a THEN b ELSE a

\* the points of all the series, in the order the loops visit them
RECURSIVE AllPoints(_)
AllPoints(data) ==
    IF data = <<>> THEN <<>> ELSE Head(data) \o AllPoints(Tail(data))

\* the two loops of calculate_bounds, from point i on
RECURSIVE ScanPoints(_, _, _)
ScanPoints(points, i, acc) ==
    IF i > Len(points) THEN acc
    ELSE ScanPoints(points, i + 1,
                    [x_min |-> FMin(acc.x_min, ToF64(points[i][1])),
                     x_max |-> FMax(acc.x_max, ToF64(points[i][1])),
                     y_min |-> FMin(acc.y_min, ToF64(points[i][2])),
                     y_max |-> FMax(acc.y_max, ToF64(points[i][2]))])

\* faulty variant of calculate_bounds: an axis of one value is not widened
CalculateBoundsNoWiden(data) ==
    LET s == ScanPoints(AllPoints(data), 1,
                        [x_min |-> F64Max, x_max |-> F64Min,
                         y_min |-> F64Max, y_max |-> F64Min])
        y_range == s.y_max - s.y_min
    IN  [x |-> <<s.x_min, s.x_max>>,
         y |-> <<FAdd(s.y_min, -(y_range \div PadDivisor)),
                 FAdd(s.y_max, y_range \div PadDivisor)>>]

CalculateBounds(data) ==
    LET s == ScanPoints(AllPoints(data), 1,
                        [x_min |-> F64Max, x_max |-> F64Min,
                         y_min |-> F64Max, y_max |-> F64Min])
        x_max == IF s.x_min >= s.x_max THEN FAdd(s.x_min, ToF64(1)) ELSE s.x_max
        y_max == IF s.y_min >= s.y_max THEN FAdd(s.y_min, ToF64(1)) ELSE s.y_max
        y_range == y_max - s.y_min
    IN  [x |-> <<s.x_min, x_max>>,
         y |-> <<FAdd(s.y_min, -(y_range \div PadDivisor)),
                 FAdd(y_max, y_range \div PadDivisor)>>]

\* render takes one more metric, without points yet
PushSeries ==
    /\ Len(chart_data) < MaxSeries
    /\ chart_data' = Append(chart_data, <<>>)
    /\ chart_bounds' = <<>>
    /\ UNCHANGED nonChartVars

\* the last metric taken has one more point
PushPoint ==
    /\ chart_data # <<>>
    /\ Len(AllPoints(chart_data)) < MaxChartPoints
    /\ \E x, y \in Coords :
           chart_data' = [chart_data EXCEPT
                              ![Len(chart_data)] = Append(@, <<x, y>>)]
    /\ chart_bounds' = <<>>
    /\ UNCHANGED nonChartVars

CallCalculateBounds ==
    /\ chart_bounds = <<>>
    /\ chart_bounds' = <<CalculateBounds(chart_data)>>
    /\ UNCHANGED <<chart_data, nonChartVars>>

ChartNext ==
    \/ PushSeries
    \/ PushPoint
    \/ CallCalculateBounds

ChartInit ==
    /\ chart_data = <<>>
    /\ chart_bounds = <<>>

InitChart ==
    CmpInit /\ AppIdle /\ SlotIdle /\ RunIdle /\ HighlightIdle /\ CfgIdle
        /\ SmoothIdle /\ PlotIdle /\ ChartInit

SpecChart == InitChart /\ [][ChartNext]_vars

(***************************************************************************)
(* Metric::smoothed (src/data/models.rs).  A factor is a number of         *)
(* hundredths; a value is a whole number of ValueUnit-ths, fine enough for *)
(* the average over MaxMetricPoints points to be exact.                    *)
(***************************************************************************)
MaxMetricPoints == 2
MaxStep == 1
MaxValue == 2

ValueUnit == 100 ^ MaxMetricPoints

Factors == {-50, 0, 50, 99, 150}

Timestamps == {<<>>, <<1>>}

MetricPoints ==
    [step : 0..MaxStep, value : {v * ValueUnit : v \in 0..MaxValue},
     timestamp : Timestamps]

\* the point lists of a Metric: ascending by step
PointLists ==
    {ps \in UNION {[1..n -> MetricPoints] : n \in 0..MaxMetricPoints} :
        \A i, j \in DOMAIN ps : i < j => ps[i].step <= ps[j].step}

\* the loop of smoothed from point i on; alpha is a number of hundredths
RECURSIVE EmaFrom(_, _, _, _)
EmaFrom(points, alpha, i, ema) ==
    IF i > Len(points) THEN <<>>
    ELSE LET next == (alpha * (points[i].value \div 100))
                         + ((100 - alpha) * ema) \div 100
         IN  <<[step |-> points[i].step, value |-> next,
                timestamp |-> points[i].timestamp]>>
                 \o EmaFrom(points, alpha, i + 1, next)

\* faulty variant of smoothed: the weights are exchanged and a factor of 0
\* is smoothed like any other
SmoothedWeightsExchanged(points, factor) ==
    IF points = <<>> THEN points
    ELSE EmaFrom(points, IF factor < 99 THEN factor ELSE 99, 1, points[1].value)

\* faulty variant of smoothed: the first point is only the seed of the average
SmoothedDropsFirst(points, factor) ==
    IF points = <<>> \/ factor <= 0 THEN points
    ELSE Tail(EmaFrom(points, 100 - (IF factor < 99 THEN factor ELSE 99), 1,
                      points[1].value))

Smoothed(points, factor) ==
    IF points = <<>> \/ factor <= 0 THEN points
    ELSE EmaFrom(points, 100 - (IF factor < 99 THEN factor ELSE 99), 1,
                 points[1].value)

CallSmoothed ==
    /\ smooth.result = <<>>
    /\ smooth' = [smooth EXCEPT !.result = <<Smoothed(smooth.points, smooth.factor)>>]
    /\ UNCHANGED nonSmoothVars

\* the same metric is smoothed again with another factor
ChangeFactor ==
    /\ smooth.result # <<>>
    /\ \E f \in Factors : smooth' = [smooth EXCEPT !.factor = f, !.result = <<>>]
    /\ UNCHANGED nonSmoothVars

SmoothNext ==
    \/ CallSmoothed
    \/ ChangeFactor

SmoothInit ==
    \E ps \in PointLists, f \in Factors :
        smooth = [points |-> ps, factor |-> f, result |-> <<>>]

InitSmooth ==
    CmpInit /\ AppIdle /\ SlotIdle /\ RunIdle /\ HighlightIdle /\ CfgIdle
        /\ ChartIdle /\ PlotIdle /\ SmoothInit

SpecSmooth == InitSmooth /\ [][SmoothNext]_vars

(***************************************************************************)
(* The colours of the plotted series (src/ui/chart.rs, src/ui/theme.rs).   *)
(* A series is written as the run index it carries; a colour is its Rgb.   *)
(***************************************************************************)
MaxPlotted == 2

ThemeNames == {"default", "soft", "dark", "light"}

\* Theme::chart_colors of the four themes
ChartColors(theme) ==
    CASE theme = "soft" ->
             << <<200, 150, 150>>, <<150, 200, 180>>, <<150, 170, 200>>,
                <<180, 200, 150>>, <<200, 200, 150>>, <<180, 150, 200>> >>
      [] theme = "dark" ->
             << <<255, 100, 100>>, <<100, 255, 200>>, <<100, 200, 255>>,
                <<200, 255, 100>>, <<255, 255, 100>>, <<255, 100, 255>> >>
      [] theme = "light" ->
             << <<200, 80, 80>>, <<60, 160, 140>>, <<60, 130, 180>>,
                <<120, 160, 60>>, <<200, 180, 60>>, <<160, 80, 160>> >>
      [] OTHER ->
             << <<255, 107, 107>>, <<78, 205, 196>>, <<69, 183, 209>>,
                <<150, 206, 180>>, <<255, 234, 167>>, <<221, 160, 221>>,
                <<152, 216, 200>>, <<247, 220, 111>> >>

\* Theme::chart_color
ChartColor(theme, index) ==
    At(ChartColors(theme), index % Len(ChartColors(theme)))

\* run indices on both sides of the end of each palette
PlottedRunIndices == {0, 1, 6, 8}

PlottedLists == UNION {[1..n -> PlottedRunIndices] : n \in 0..MaxPlotted}

\* faulty variant: the colour of a series is that of its place in the list
GetColorAssignmentsByPosition(plotted, theme) ==
    [i \in 1..Len(plotted) |-> ChartColor(theme, i - 1)]

\* the colour render gives each series of the list
GetColorAssignments(plotted, theme) ==
    [i \in 1..Len(plotted) |-> ChartColor(theme, plotted[i])]

\* the two lists are rendered
RenderPlots ==
    /\ plots.colors = <<>>
    /\ plots' = [plots EXCEPT !.colors =
                    <<GetColorAssignments(plots.lists[1], plots.theme),
                      GetColorAssignments(plots.lists[2], plots.theme)>>]
    /\ UNCHANGED nonPlotVars

\* the program is started with another theme
ChangeTheme ==
    /\ plots.colors # <<>>
    /\ \E theme \in ThemeNames :
           plots' = [plots EXCEPT !.theme = theme, !.colors = <<>>]
    /\ UNCHANGED nonPlotVars

PlotNext ==
    \/ RenderPlots
    \/ ChangeTheme

PlotInit ==
    \E theme \in ThemeNames, first, second \in PlottedLists :
        plots = [theme |-> theme, lists |-> <<first, second>>, colors |-> <<>>]

InitPlot ==
    CmpInit /\ AppIdle /\ SlotIdle /\ RunIdle /\ HighlightIdle /\ CfgIdle
        /\ ChartIdle /\ SmoothIdle /\ PlotInit

SpecPlot == InitPlot /\ [][PlotNext]_vars

\* The series App::render hands to the chart, each written as the run index
\* it carries: the selected run's current metric, then the same-named metric
\* of the comparison runs.  The chart takes the index in self.runs as the
\* run's key (chart.rs: "(run_name, run_idx, metric)").
SeriesOfApp(a) ==
    LET has_name == a.selected_metric < Len(a.metric_names)
        name == At(a.metric_names, a.selected_metric)
        current == IF has_name /\ name \in Range(a.metrics)
                   THEN <<a.selected_run>> ELSE <<>>
        others == SelectSeq(AppGetComparisonMetrics(a.comparison, a.selected_run),
                            LAMBDA e : /\ has_name /\ e[2] = name
                                       /\ e[1] < Len(a.runs))
    IN  current \o [k \in 1..Len(others) |-> others[k][1]]

\* the colours in which the run with this id is drawn
ColorsOfRun(a, id) ==
    {ChartColor("default", idx) :
        idx \in {i \in Range(SeriesOfApp(a)) : i < Len(a.runs) /\ At(a.runs, i) = id}}

(***************************************************************************)
(* Properties of the comparison engine.                                   *)
(***************************************************************************)
RECURSIVE SumLen(_, _)
SumLen(cache, ids) ==
    IF ids = {} THEN 0
    ELSE LET r == CHOOSE x \in ids : TRUE
         IN  Len(cache[r]) + SumLen(cache, ids \ {r})

\* C1 (as stated): after any sequence of toggle_run, cache_metrics,
\* prune_invalid_runs and clear calls with arbitrary arguments, every key of
\* metrics_cache is a member of marked_runs.
C1_CacheKeysMarked_AnyCalls ==
    DOMAIN metrics_cache \subseteq marked_runs

\* C1 (amended): when cache_metrics is only ever called with a run id that is
\* marked at the time of the call, every key of metrics_cache is a member of
\* marked_runs after any sequence of toggle_run, cache_metrics,
\* prune_invalid_runs and clear calls.
C1_CacheKeysMarked_CallerCachesMarkedOnly ==
    cmp_contract => DOMAIN metrics_cache \subseteq marked_runs

C1_Witness ==
    /\ cmp_contract
    /\ cmp_op.name = "toggle_run"
    /\ cmp_op.run_id \in DOMAIN cmp_pre.metrics_cache
    /\ cmp_op.run_id \notin marked_runs
    /\ metrics_cache # ComparisonStateNew.metrics_cache

\* C6: prune_invalid_runs(valid_ids) leaves marked = old marked \cap valid_ids
\* and cache keys = old cache keys \cap valid_ids, and the cached metric list
\* of every surviving id is what it was.
C6_PruneExact ==
    cmp_op.name = "prune_invalid_runs" =>
        /\ marked_runs = cmp_pre.marked_runs \cap cmp_op.valid_run_ids
        /\ DOMAIN metrics_cache =
               DOMAIN cmp_pre.metrics_cache \cap cmp_op.valid_run_ids
        /\ \A r \in DOMAIN metrics_cache :
               metrics_cache[r] = cmp_pre.metrics_cache[r]

C6_Witness ==
    /\ cmp_op.name = "prune_invalid_runs"
    /\ \E r \in DOMAIN cmp_pre.metrics_cache \cap cmp_pre.marked_runs :
           r \notin cmp_op.valid_run_ids
    /\ \E r \in DOMAIN metrics_cache \cap marked_runs : Len(metrics_cache[r]) > 0

\* C7: two toggle_run(r) calls in a row leave r marked exactly if it was
\* marked before the first of them, and leave no cache entry for r.
C7_ToggleTwice ==
    [][(cmp_op.name = "toggle_run" /\ cmp_op' = cmp_op) =>
          /\ (cmp_op.run_id \in marked_runs') = (cmp_op.run_id \in cmp_pre.marked_runs)
          /\ cmp_op.run_id \notin DOMAIN metrics_cache']_vars

C7_Witness ==
    /\ cmp_twice
    /\ cmp_op.run_id \in marked_runs

\* C8: toggle_run(r) flips r's membership in marked_runs; it returns true
\* exactly when r was unmarked before and is marked after, false exactly when
\* r was marked before and is unmarked after.
C8_ToggleFlipsAndReports ==
    cmp_op.name = "toggle_run" =>
        LET r == cmp_op.run_id
            was == r \in cmp_pre.marked_runs
            is == r \in marked_runs
        IN  /\ is = ~was
            /\ cmp_ret \in BOOLEAN
            /\ (cmp_ret = TRUE) = (is /\ ~was)
            /\ (cmp_ret = FALSE) = (~is /\ was)

C8_Witness ==
    /\ cmp_op.name = "toggle_run"
    /\ cmp_ret = FALSE
    /\ marked_runs # {}

\* C9: get_comparison_metrics(selected) yields exactly the pairs (r, m) with r
\* marked, r other than selected and m in the cached metric list of r, each
\* once: none for the selected run, none left out.
C9_ComparisonMetricsExact ==
    cmp_op.name = "get_comparison_metrics" =>
        LET others == (marked_runs \ {cmp_op.run_id}) \cap DOMAIN metrics_cache
        IN  /\ Range(cmp_ret) =
                   UNION {{<<r, m>> : m \in Range(metrics_cache[r])} : r \in others}
            /\ Len(cmp_ret) = SumLen(metrics_cache, others)
            /\ \A i \in DOMAIN cmp_ret : cmp_ret[i][1] # cmp_op.run_id

C9_Witness ==
    /\ cmp_op.name = "get_comparison_metrics"
    /\ cmp_op.run_id \in marked_runs \cap DOMAIN metrics_cache
    /\ Len(metrics_cache[cmp_op.run_id]) > 0
    /\ Len(cmp_ret) > MaxCachedMetrics

\* C10: after clear(), marked_runs and metrics_cache are both empty.
C10_ClearEmpties ==
    cmp_op.name = "clear" => (marked_runs = {} /\ DOMAIN metrics_cache = {})

C10_Witness ==
    /\ cmp_op.name = "clear"
    /\ cmp_pre.marked_runs # {}
    /\ DOMAIN cmp_pre.metrics_cache # {}

(***************************************************************************)
(* Properties of the application.                                              *)
(***************************************************************************)
\* the name of the selected project, NoProject when there is none to select
SelectedProjectName(ps, sel) ==
    IF sel < Len(ps) THEN At(ps, sel) ELSE NoProject

\* the ids of the runs the marked indices point at
MarkedRunIds(rs, cmp) ==
    {At(rs, i) : i \in {m \in Range(cmp.marked_runs) : m < Len(rs)}}

\* C2: after a refresh that leaves the same project selected and brings a
\* different run list, a run id is marked exactly if it was marked before and
\* is still in the new run list; a mark never moves to a run with a different
\* id.  (Stated as: a step that changes runs, keeps the project and breaks
\* this is not a refresh.)
C2_MarksFollowRunIdentity ==
    [][(/\ runs' # runs
        /\ SelectedProjectName(projects', selected_project') =
               SelectedProjectName(projects, selected_project))
       => \/ MarkedRunIds(runs', comparison') =
                 MarkedRunIds(runs, comparison) \cap Range(runs')
          \/ ~(TimerRefresh(EnvRuns) \/ KeyRefresh(EnvRuns))]_vars

\* C3: when a Storage call fails during a refresh, a project navigation or a
\* run navigation (the only handlers that return Err), projects, runs,
\* metrics, metric_names, current_config, the three selections and the
\* comparison state are what they were before the operation.
C3_FailedFetchKeepsState ==
    [][app_status' = "Err" =>
          /\ projects' = projects
          /\ runs' = runs
          /\ metrics' = metrics
          /\ metric_names' = metric_names
          /\ current_config' = current_config
          /\ selected_project' = selected_project
          /\ selected_run' = selected_run
          /\ selected_metric' = selected_metric
          /\ comparison' = comparison]_vars

\* C4: after every key event and every refresh, failed ones included, each of
\* selected_project, selected_run and selected_metric is below the length of
\* its list whenever that list is non-empty.
C4_SelectionsInBounds ==
    /\ projects # <<>> => selected_project < Len(projects)
    /\ runs # <<>> => selected_run < Len(runs)
    /\ metric_names # <<>> => selected_metric < Len(metric_names)

\* C5: after any key event or refresh that changes the name of the selected
\* project, the comparison's marked set and metrics cache are both empty.
C5_ProjectChangeClearsComparison ==
    [][SelectedProjectName(projects', selected_project') #
           SelectedProjectName(projects, selected_project)
       => /\ comparison'.marked_runs = <<>>
          /\ DOMAIN comparison'.metrics_cache = {}]_vars

\* the refresh with answers st reaches the get_all_metrics call of
\* load_comparison_metrics for run index i, and that call fails
RefreshFetchFails(st, i) ==
    /\ st.projects.ok /\ st.projects.val # <<>>
    /\ st.runs.ok /\ st.runs.val # <<>>
    /\ st.names.ok /\ st.metrics.ok
    /\ i \in Range(comparison.marked_runs) /\ i < Len(st.runs.val)
    /\ ~st.cmp[i].ok

\* 's' with answers st marks run index i and the get_all_metrics call of
\* load_single_comparison_run for it fails
ToggleFetchFails(st, i) ==
    /\ ~show_help /\ focused = "Runs"
    /\ i = selected_run /\ i \notin Range(comparison.marked_runs)
    /\ projects # <<>> /\ i < Len(runs)
    /\ ~st.cmp[i].ok

\* after the step run index i is marked and not cached, and the handler
\* ended Ok
MarkedUncachedOk(i) ==
    /\ i \in Range(comparison'.marked_runs)
    /\ i \notin DOMAIN comparison'.metrics_cache
    /\ app_status' = "Ok"

\* C11: when get_all_metrics fails for a marked run, on toggling it on or
\* during a refresh, the run is marked afterwards, it has no entry in the
\* comparison cache, the handler ends Ok and no error message is set (a
\* refresh leaves None, the key handler leaves error_message as it was).
\* (Stated as: a step from a state with i marked, or with i selected and
\* unmarked, that breaks this is no such refresh and no such toggle.)
C11_FailedComparisonFetch ==
    [][\A i \in RunIndices :
          /\ (/\ i \in Range(comparison.marked_runs)
              /\ ~(MarkedUncachedOk(i) /\ error_message' = None))
             => ~\E st \in EnvRuns.refresh[MarkedIndices] :
                     /\ RefreshFetchFails(st, i)
                     /\ \/ AppBecomes(LoopRefresh(App, st))
                        \/ AppBecomes(LoopKey(App, "r", st))
          /\ (/\ i = selected_run
              /\ ~(MarkedUncachedOk(i) /\ error_message' = error_message))
             => ~\E st \in EnvRuns.cmp[{selected_run} \cap RunIndices] :
                     /\ ToggleFetchFails(st, i)
                     /\ AppBecomes(LoopKey(App, "s", st))]_vars

\* C16: next and prev are inverse cyclic permutations of the three panels:
\* prev(next(p)) = p, next(prev(p)) = p and next applied three times is p, for
\* every panel p, in the order Projects, Runs, Metrics, Projects; the focused
\* panel, moved by them, is always one of the three.
C16_FocusCycle ==
    /\ focused \in FocusedPanels
    /\ \A p \in FocusedPanels :
          /\ FocusedPanelPrev(FocusedPanelNext(p)) = p
          /\ FocusedPanelNext(FocusedPanelPrev(p)) = p
          /\ FocusedPanelNext(FocusedPanelNext(FocusedPanelNext(p))) = p
    /\ FocusedPanelNext("Projects") = "Runs"
    /\ FocusedPanelNext("Runs") = "Metrics"
    /\ FocusedPanelNext("Metrics") = "Projects"

C16_Witness ==
    /\ focused = "Metrics"
    /\ FocusedPanelPrev(FocusedPanelNext(focused)) = "Metrics"
    /\ ~show_help

(***************************************************************************)
(* Properties of the metric slot state.                                    *)
(***************************************************************************)
\* C17: from the default state, under select_slot, shift_left, shift_right and
\* clamp, with the metric count changing at will, selected_slot is below
\* min(N, 9) whenever N > 0 and clamp(N) was called since N last changed.
C17_SelectedSlotVisible ==
    (slot_clamped /\ num_metrics > 0)
        => selected_slot < Min(num_metrics, MAX_SLOTS)

\* clamp has just pulled back a slot that the new, smaller count made invisible
C17_Witness ==
    /\ slot_op.name = "clamp" /\ slot_clamped
    /\ num_metrics > 0
    /\ slot_pre.selected_slot >= Min(num_metrics, MAX_SLOTS)
    /\ selected_slot < slot_pre.selected_slot

\* C18: for N > 0 selected_metric(N) is the remainder of window_start +
\* selected_slot by N, a value in [0, N), whatever the two fields hold; for
\* N = 0 it is 0.
C18_SelectedMetricIsRemainder ==
    slot_op.name = "selected_metric"
        => IF num_metrics > 0
           THEN /\ slot_ret \in 0..(num_metrics - 1)
                /\ \E q \in 0..(window_start + selected_slot) :
                       window_start + selected_slot = q * num_metrics + slot_ret
           ELSE slot_ret = 0

\* selected_metric was called on a window start not normalised against N
C18_Witness ==
    /\ slot_op.name = "selected_metric"
    /\ num_metrics > 0
    /\ window_start >= num_metrics
    /\ slot_ret # window_start + selected_slot

\* C19 as stated: shift_right(N) followed at once by shift_left(N) leaves
\* window_start as it was before the two calls, for any N and any state.
C19_ShiftRightLeftRestores ==
    (slot_op.name = "shift_left" /\ slot_before_right # <<>>)
        => window_start = slot_before_right[1]

\* C19 amended: shift_right(N) followed at once by shift_left(N) leaves
\* window_start as it was, when window_start < N before the two calls or N <= 9;
\* otherwise it leaves the remainder of the old window_start by N.
C19_ShiftRightLeftRestoresNormalised ==
    (slot_op.name = "shift_left" /\ slot_before_right # <<>>)
        => IF slot_before_right[1] < num_metrics \/ num_metrics <= MAX_SLOTS
           THEN window_start = slot_before_right[1]
           ELSE /\ window_start < num_metrics
                /\ \E q \in 1..slot_before_right[1] :
                       slot_before_right[1] = q * num_metrics + window_start

\* the pair of calls went round the end of the list: N-1 -> 0 -> N-1
C19_Witness ==
    /\ slot_op.name = "shift_left" /\ slot_before_right # <<>>
    /\ num_metrics > MAX_SLOTS
    /\ slot_before_right[1] = num_metrics - 1
    /\ slot_pre.window_start = 0
    /\ window_start = num_metrics - 1

\* C20: for N > 9, shift_right(N) keeps selected_slot and moves
\* selected_metric(N) to (old + 1) mod N; shift_left(N) keeps selected_slot
\* and moves selected_metric(N) to (old - 1) mod N.
C20_ShiftMovesSelectedMetric ==
    num_metrics > MAX_SLOTS
        => LET old == SelectedMetric(slot_pre, num_metrics)
               new == SelectedMetric(SlotSelf, num_metrics)
           IN  /\ slot_op.name = "shift_right"
                      => /\ selected_slot = slot_pre.selected_slot
                         /\ new = (IF old = num_metrics - 1 THEN 0 ELSE old + 1)
               /\ slot_op.name = "shift_left"
                      => /\ selected_slot = slot_pre.selected_slot
                         /\ new = (IF old = 0 THEN num_metrics - 1 ELSE old - 1)

\* shift_right took the visualised metric from the last one to the first
C20_Witness ==
    /\ slot_op.name = "shift_right"
    /\ num_metrics > MAX_SLOTS
    /\ selected_slot > 0
    /\ SelectedMetric(slot_pre, num_metrics) = num_metrics - 1
    /\ SelectedMetric(SlotSelf, num_metrics) = 0


(***************************************************************************)
(* Properties of run() and of the main loop.                               *)
(***************************************************************************)
\* the step is a call of refresh(), by the timer or by the 'r' key
RefreshAttempt ==
    /\ iter_steps' # iter_steps
    /\ iter_steps'[Len(iter_steps')].step = "refresh"

\* C12 as stated: an error message set by a failed refresh or a failed key
\* handling is in error_message when the next frame is drawn, stays set until
\* the next refresh attempt, and is None after the next refresh that succeeds.
C12_ErrorMessageShown ==
    [][/\ (pc = "draw" /\ err_unrendered \in {"Set", "Refreshed"})
              => error_message # None
       /\ (error_message # None /\ ~RefreshAttempt) => error_message' # None
       /\ (RefreshAttempt /\ app_status' = "Ok") => error_message' = None]_vars

\* C12 amended: the message is in error_message when the next frame is drawn
\* unless a refresh has succeeded before that frame; it stays set until the
\* next refresh attempt, and is None after the next refresh that succeeds.
C12_ErrorMessageShownUnlessRefreshed ==
    [][/\ (pc = "draw" /\ err_unrendered = "Set") => error_message # None
       /\ (error_message # None /\ ~RefreshAttempt) => error_message' # None
       /\ (RefreshAttempt /\ app_status' = "Ok") => error_message' = None]_vars

\* a frame has just been drawn with the message of a failed key handling
C12_Witness ==
    /\ pc = "timer"
    /\ iter_steps = <<IterStep("render", None)>>
    /\ error_message = "Input error"

\* C13: run_main_loop returns only at the quit check with should_quit set, or
\* with the error of a draw, poll or read call; a refresh or a key handling
\* that fails sets error_message and the loop goes on.
C13_LoopReturns ==
    [][/\ (loop_result = None /\ loop_result' # None)
              => \/ pc = "quit_check" /\ should_quit /\ loop_result' = "Ok"
                 \/ /\ pc \in {"draw", "poll", "read"}
                    /\ loop_result' = "Err"
                    /\ UNCHANGED appVars
       /\ (/\ pc \in {"timer", "read"}
           /\ iter_steps' # iter_steps
           /\ app_status' = "Err")
              => /\ loop_result' = None
                 /\ error_message' # None
                 /\ ~should_quit'
                 /\ pc' \in {"poll", "quit_check"}]_vars

\* after a failed refresh and a failed key handling the loop is in its next
\* iteration
C13_Witness ==
    /\ pc = "poll"
    /\ loop_result = None
    /\ app_status = "Err"
    /\ error_message = "Refresh error"
    /\ refresh_due

StepPos(step) ==
    CASE step = "render" -> 1
      [] step = "refresh" -> 2
      [] step = "poll" -> 3
      [] step = "dispatch" -> 4

\* C14 as stated: the steps of an iteration come in the order render, refresh,
\* poll, dispatch, each at most once: no refresh at or after the dispatch.
C14_IterationOrder ==
    \A i, j \in DOMAIN iter_steps :
        i < j => StepPos(iter_steps[i].step) < StepPos(iter_steps[j].step)

\* C14 amended: the steps of an iteration come in the order render, timer
\* refresh, poll, dispatch, each at most once; the one other refresh is that of
\* the 'r' key, inside its dispatch, and it ends the iteration's steps.
C14_IterationOrderButKeyRefresh ==
    \A i, j \in DOMAIN iter_steps :
        i < j =>
            \/ /\ StepPos(iter_steps[i].step) < StepPos(iter_steps[j].step)
               /\ iter_steps[j].step = "refresh" => iter_steps[j].key = None
            \/ /\ j = Len(iter_steps)
               /\ iter_steps[j] = IterStep("refresh", "r")
               /\ iter_steps[j - 1] = IterStep("dispatch", "r")

\* an iteration that did all four steps, the timer's refresh among them
C14_Witness ==
    /\ pc = "quit_check"
    /\ Len(iter_steps) = 4
    /\ iter_steps[2] = IterStep("refresh", None)
    /\ iter_steps[4].step = "dispatch"

\* C15: when run() has returned after enable_raw_mode() succeeded,
\* restore_terminal() has been called.
C15_TerminalRestored ==
    (pc = "returned" /\ raw_enabled)
        => terminal.restore_calls >= 1 /\ ~terminal.raw_mode

\* run() returned the error of App::new or of a terminal set-up step
C15_Witness ==
    /\ pc = "returned" /\ raw_enabled
    /\ run_result = "Err" /\ loop_result = None
    /\ terminal.restore_calls = 1


(***************************************************************************)
(* Further properties of the metric slot state.                            *)
(***************************************************************************)
\* C21: for N <= 9 (0 and 9 included) shift_left(N) and shift_right(N) leave
\* window_start, selected_slot and selected_metrics as they were.
C21_NoShiftWhenAllFit ==
    (num_metrics <= MAX_SLOTS /\ slot_op.name \in {"shift_left", "shift_right"})
        => /\ window_start = slot_pre.window_start
           /\ selected_slot = slot_pre.selected_slot
           /\ selected_metrics = slot_pre.selected_metrics

\* shift_right on exactly nine metrics, on a state with something to lose
C21_Witness ==
    /\ slot_op.name = "shift_right"
    /\ num_metrics = MAX_SLOTS
    /\ window_start > 0 /\ selected_slot > 0 /\ selected_metrics # {}

\* C22: select_slot(slot, N) sets selected_slot to slot when slot < min(N, 9);
\* otherwise (N = 0 included) it changes nothing; window_start never changes and
\* selected_slot never becomes a value other than the requested one.
C22_SelectSlotOrNothing ==
    slot_op.name = "select_slot"
        => /\ window_start = slot_pre.window_start
           /\ selected_metrics = slot_pre.selected_metrics
           /\ selected_slot \in {slot_op.arg, slot_pre.selected_slot}
           /\ IF slot_op.arg < Min(num_metrics, MAX_SLOTS)
              THEN selected_slot = slot_op.arg
              ELSE selected_slot = slot_pre.selected_slot

\* a slot beyond the visible ones was asked for and nothing moved
C22_Witness ==
    /\ slot_op.name = "select_slot"
    /\ num_metrics > 0
    /\ slot_op.arg >= Min(num_metrics, MAX_SLOTS)
    /\ selected_slot < Min(num_metrics, MAX_SLOTS)
    /\ selected_slot = slot_pre.selected_slot

\* C23: clamp(0) gives window_start = 0 and selected_slot = 0; clamp(N), N > 0,
\* gives window_start = old window_start mod N and selected_slot =
\* min(old selected_slot, min(N, 9) - 1); a state with window_start < N and
\* selected_slot < min(N, 9) is left as it was.
C23_ClampExact ==
    slot_op.name = "clamp"
        => IF num_metrics = 0
           THEN window_start = 0 /\ selected_slot = 0
           ELSE /\ window_start < num_metrics
                /\ \E q \in 0..slot_pre.window_start :
                       slot_pre.window_start = q * num_metrics + window_start
                /\ selected_slot =
                       Min(slot_pre.selected_slot, Min(num_metrics, MAX_SLOTS) - 1)
                /\ (/\ slot_pre.window_start < num_metrics
                    /\ slot_pre.selected_slot < Min(num_metrics, MAX_SLOTS))
                       => SlotSelf = slot_pre

\* clamp brought back both a window start and a slot that were out of range
C23_Witness ==
    /\ slot_op.name = "clamp"
    /\ num_metrics > 0
    /\ slot_pre.window_start >= num_metrics
    /\ slot_pre.selected_slot >= Min(num_metrics, MAX_SLOTS)
    /\ window_start > 0

RECURSIVE ShiftRightTimes(_, _, _)
ShiftRightTimes(s, n, k) ==
    IF k = 0 THEN s ELSE ShiftRightTimes(ShiftRight(s, n), n, k - 1)

RECURSIVE ShiftLeftTimes(_, _, _)
ShiftLeftTimes(s, n, k) ==
    IF k = 0 THEN s ELSE ShiftLeftTimes(ShiftLeft(s, n), n, k - 1)

\* every metric index is visualised after some number of shifts right, and
\* after some number of shifts left
AllMetricsReachable ==
    \A m \in 0..(num_metrics - 1) :
        /\ \E k \in 0..(num_metrics - 1) :
               SelectedMetric(ShiftRightTimes(SlotSelf, num_metrics, k), num_metrics) = m
        /\ \E k \in 0..(num_metrics - 1) :
               SelectedMetric(ShiftLeftTimes(SlotSelf, num_metrics, k), num_metrics) = m

\* C24 as stated: for N > 9 and selected_slot < 9 every metric index is
\* reached by consecutive shifts in either direction, and N consecutive shifts
\* in one direction bring window_start back to its starting value.
C24_ShiftsGoRound ==
    (num_metrics > MAX_SLOTS /\ selected_slot < MAX_SLOTS)
        => /\ slot_run.dir # "none" => AllMetricsReachable
           /\ slot_run.count = num_metrics => window_start = slot_run.start

\* C24 amended: the same, the return of window_start being claimed of a
\* starting value below N; from a starting value of N or more the N shifts
\* leave its remainder by N.
C24_ShiftsGoRoundNormalised ==
    (num_metrics > MAX_SLOTS /\ selected_slot < MAX_SLOTS)
        => /\ slot_run.dir # "none" => AllMetricsReachable
           /\ slot_run.count = num_metrics
                  => /\ window_start < num_metrics
                     /\ slot_run.start < num_metrics => window_start = slot_run.start
                     /\ \E q \in 0..slot_run.start :
                            slot_run.start = q * num_metrics + window_start

\* N shifts right have gone once round the list
C24_Witness ==
    /\ num_metrics > MAX_SLOTS /\ selected_slot < MAX_SLOTS
    /\ slot_run.dir = "shift_right"
    /\ slot_run.count = num_metrics
    /\ slot_run.start > 0 /\ slot_run.start < num_metrics
    /\ window_start = slot_run.start


(***************************************************************************)
(* Properties of the config panel.                                         *)
(***************************************************************************)
\* C25: for every line and every query that is not empty, every range of
\* case_insensitive_byte_ranges has start <= end <= line.len() with both
\* offsets on character boundaries of the line, the ranges ascend without
\* overlap, and ConfigPanel::render slices the line without a panic.
C25_RangesSliceTheLine ==
    highlight.status # "None"
        => /\ \A k \in DOMAIN highlight.ranges :
                  /\ SliceOk(highlight.line, highlight.ranges[k][1],
                             highlight.ranges[k][2])
                  /\ k > 1 => highlight.ranges[k - 1][2] <= highlight.ranges[k][1]
           /\ highlight.status = "Ok"

\* C26: next_match moves current_match one forward and prev_match one back,
\* modulo the number of matches; both change nothing when there is no match;
\* current_match is below the number of matches whenever there is one.
C26_MatchCursorWraps ==
    LET n == Len(cfg_pre.match_indices)
    IN  /\ config_panel.match_indices # <<>>
               => config_panel.current_match < Len(config_panel.match_indices)
        /\ (cfg_op \in {"next_match", "prev_match"} /\ n = 0)
               => config_panel = cfg_pre
        /\ (cfg_op = "next_match" /\ n > 0)
               => config_panel =
                      [cfg_pre EXCEPT !.current_match =
                                          IF @ = n - 1 THEN 0 ELSE @ + 1]
        /\ (cfg_op = "prev_match" /\ n > 0)
               => config_panel =
                      [cfg_pre EXCEPT !.current_match =
                                          IF @ = 0 THEN n - 1 ELSE @ - 1]

\* next_match went from the last match to the first
C26_Witness ==
    /\ cfg_op = "next_match"
    /\ Len(config_panel.match_indices) > 1
    /\ cfg_pre.current_match = Len(config_panel.match_indices) - 1
    /\ config_panel.current_match = 0

\* C27: after reset the query and the match list are empty, current_match is
\* 0, search_active is false, and the title is the one of no search.
C27_ResetClearsSearch ==
    cfg_op = "reset"
        => /\ config_panel.search = <<>>
           /\ config_panel.match_indices = <<>>
           /\ config_panel.current_match = 0
           /\ ~config_panel.search_active
           /\ ConfigPanelTitle(config_panel).form = " Config "

\* reset of an active search with matches, the cursor not on the first
C27_Witness ==
    /\ cfg_op = "reset"
    /\ cfg_pre.search # <<>> /\ cfg_pre.search_active
    /\ cfg_pre.current_match > 0
    /\ ConfigPanelTitle(cfg_pre).form = " Config [/{}] ({}/{}) "
    /\ config_panel.search = <<>>

(***************************************************************************)
(* Properties of the chart pipeline.                                       *)
(***************************************************************************)
\* the least and the greatest of a non-empty set of numbers
Least(S) == CHOOSE m \in S : \A n \in S : m <= n

Greatest(S) == CHOOSE m \in S : \A n \in S : m >= n

XValues == {ToF64(AllPoints(chart_data)[i][1]) : i \in DOMAIN AllPoints(chart_data)}

YValues == {ToF64(AllPoints(chart_data)[i][2]) : i \in DOMAIN AllPoints(chart_data)}

\* (min, max) of a set of values, the upper bound being min + 1 when they
\* are equal
MinMaxWidened(S) ==
    <<Least(S), IF Least(S) = Greatest(S) THEN Least(S) + ToF64(1) ELSE Greatest(S)>>

\* C28: for chart data without any point the bounds are (0, 1) on both axes.
C28_EmptyDataDefaultBounds ==
    (chart_bounds # <<>> /\ AllPoints(chart_data) = <<>>)
        => chart_bounds[1] = [x |-> <<0, ToF64(1)>>, y |-> <<0, ToF64(1)>>]

C30_SmoothedZeroIsIdentity ==
    (smooth.result # <<>> /\ smooth.factor = 0)
        => smooth.result[1] = smooth.points

\* a metric of two points of different values was smoothed with factor 0
C30_Witness ==
    /\ smooth.factor = 0
    /\ smooth.result # <<>>
    /\ Len(smooth.points) = 2
    /\ smooth.points[1].value # smooth.points[2].value
    /\ smooth.result[1] = smooth.points

\* C31: for every factor smoothed returns as many points as the metric has,
\* the i-th with the step and the timestamp of the i-th point of the metric.
C31_SmoothedKeepsStepsAndTimestamps ==
    smooth.result # <<>>
        => /\ Len(smooth.result[1]) = Len(smooth.points)
           /\ \A i \in DOMAIN smooth.points :
                  /\ smooth.result[1][i].step = smooth.points[i].step
                  /\ smooth.result[1][i].timestamp = smooth.points[i].timestamp

\* two points with timestamps were smoothed and the second value changed
C31_Witness ==
    /\ smooth.factor > 0
    /\ smooth.result # <<>>
    /\ Len(smooth.points) = 2
    /\ Len(smooth.result[1]) = 2
    /\ smooth.points[2].timestamp # <<>>
    /\ smooth.result[1][2].value # smooth.points[2].value
    /\ smooth.result[1][2].step = smooth.points[2].step

\* C32: a run index has the same colour in both plotted lists, whatever its
\* place in each and whatever the other series.
C32_ColorByRunKey ==
    plots.colors # <<>>
        => \A i \in DOMAIN plots.lists[1], j \in DOMAIN plots.lists[2] :
               plots.lists[1][i] = plots.lists[2][j]
                   => plots.colors[1][i] = plots.colors[2][j]

\* a run index alone in one list and behind another series in the other
C32_Witness ==
    /\ plots.colors # <<>>
    /\ Len(plots.lists[1]) = 1 /\ Len(plots.lists[2]) = 2
    /\ plots.lists[2][2] = plots.lists[1][1]
    /\ plots.lists[2][1] # plots.lists[1][1]
    /\ plots.colors[1][1] = plots.colors[2][2]
    /\ plots.colors[2][1] # plots.colors[2][2]

C34_NoIndexPanic == app_status # "Panic"

\* the last project and the last run are selected, the last run is marked and
\* its metrics were fetched
C34_Witness ==
    /\ app_status = "Ok"
    /\ Len(projects) = MaxProjects /\ selected_project = MaxProjects - 1
    /\ Len(runs) = MaxRuns /\ selected_run = MaxRuns - 1
    /\ (MaxRuns - 1) \in DOMAIN comparison.metrics_cache

\* C35: every run marked for comparison is a run of the current run list:
\* every marked index is below runs.len(), also when the list is empty.
C35_MarkedRunsExist ==
    \A i \in Range(comparison.marked_runs) : i < Len(runs)

\* C36: the keys of the comparison cache are marked runs, and no run is
\* marked twice.
C36_CacheKeysMarkedNoDuplicates ==
    /\ DOMAIN comparison.metrics_cache \subseteq Range(comparison.marked_runs)
    /\ \A i, j \in DOMAIN comparison.marked_runs :
           comparison.marked_runs[i] = comparison.marked_runs[j] => i = j

\* two runs are marked, the second one first, and only one of them is cached
C36_Witness ==
    /\ comparison.marked_runs = <<1, 0>>
    /\ DOMAIN comparison.metrics_cache = {0}
    /\ error_message # None

\* C37: a project navigation key that leaves the selected project as it was
\* leaves the comparison's marked runs and cache as they were.  (Stated as:
\* a step that keeps the projects and the selection and changes the
\* comparison is not a project navigation.  Only steps that find the same
\* runs again, from states whose marks all refer to runs, are looked at.)
C37_SameProjectKeepsComparison ==
    [][(/\ projects' = projects
        /\ selected_project' = selected_project
        /\ runs' = runs
        /\ \A i \in Range(comparison.marked_runs) : i < Len(runs)
        /\ comparison' # comparison)
       => ~KeyProjectNavigation(EnvRuns)]_vars

(***************************************************************************)
(* Properties of the keys of the chart configuration and of the help       *)
(* overlay.                                                                *)
(***************************************************************************)
GlobalKeys == {"q", "?", "h", "F1", "Esc", "r", "Tab", "BackTab"}

\* what a key handler may be answered: by Storage, or by the first metric
\* about its steps
AnyAnswers ==
    EnvChart.runs \cup EnvChart.metrics
        \cup UNION {EnvChart.cmp[idxs] : idxs \in SUBSET RunIndices}
        \cup {[NoAnswers EXCEPT !.step_range = r] : r \in StepRanges}

\* C38: while the help overlay is shown, a key other than q, ?, h, F1, Esc,
\* r, Tab and BackTab leaves the three selections, the comparison, the
\* smoothing factor, x_min and the loaded data as they were.  (Stated as: a
\* step from a state with the overlay that changes one of them is not the
\* dispatch of such a key.)
C38_HelpStopsOtherKeys ==
    [][(/\ show_help
        /\ <<selected_project, selected_run, selected_metric, comparison,
              chart_config, projects, runs, metrics, metric_names,
              current_config>>' #
           <<selected_project, selected_run, selected_metric, comparison,
              chart_config, projects, runs, metrics, metric_names,
              current_config>>)
       => ~\E key \in Keys \ GlobalKeys, st \in AnyAnswers :
               AppBecomes(LoopKey(App, key, st))]_vars

\* the overlay is shown over a changed chart configuration, a marked run and
\* loaded metrics
C38_Witness ==
    /\ show_help
    /\ chart_config.smoothing > 0 /\ chart_config.x_min # <<>>
    /\ comparison.marked_runs # <<>>
    /\ metrics # <<>>

\* C39: the smoothing factor is within [0, 0.99] after any presses of '+',
\* '=' and '-'.
C39_SmoothingInRange ==
    chart_config.smoothing >= 0 /\ chart_config.smoothing <= 99

\* '+' was pressed up to the cap
C39_Witness == chart_config.smoothing = 99 /\ app_status = "Ok"

(***************************************************************************)
(* Properties of the quit key                                              *)
(***************************************************************************)
\* C40: the dispatch of a 'q' key event, under any focus and with the help
\* overlay shown or not, sets should_quit and leaves the loop at its quit
\* check; from then on should_quit stays set, the iteration does no further
\* render, refresh or dispatch, and run_main_loop returns Ok.
C40_QuitEndsLoop ==
    [][/\ (/\ iter_steps' # iter_steps
           /\ iter_steps'[Len(iter_steps')] = IterStep("dispatch", "q"))
              => /\ should_quit'
                 /\ pc' = "quit_check"
                 /\ loop_result' = loop_result
       /\ should_quit
              => /\ should_quit'
                 /\ iter_steps' = iter_steps
                 /\ pc' \in {"loop_returned", "returned"}
                 /\ loop_result' = "Ok"]_vars

\* run_main_loop returned Ok after a 'q' dispatched with the help overlay shown
\* and the focus away from the projects panel
C40_Witness ==
    /\ pc = "loop_returned"
    /\ loop_result = "Ok"
    /\ should_quit
    /\ show_help
    /\ focused # "Projects"
    /\ iter_steps[Len(iter_steps)] = IterStep("dispatch", "q")

=============================================================================
